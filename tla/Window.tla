-------------------------------- MODULE Window --------------------------------
(***************************************************************************)
(* One window of traffic after another, from the packets to what the model *)
(* is asked about: which packets the eBPF programs count, and for whom     *)
(* (bpf/anlf.c, bpf/protocols/gtpu.h), the features a poll makes of the    *)
(* counters (pkg/ebpf/features.go), the averages over the active UEs       *)
(* (processBatch, internal/analyzer/analyzer.go), and the records that are *)
(* passed over as empty (isEmptyRecord, internal/analyzer/detector).       *)
(*                                                                         *)
(* Packets are processed one at a time and a poll reads all at once: their *)
(* races are the subject of EbpfMetrics, evictions of that of TlsCapture.  *)
(* The programs are attached to one device.  On "n3" a packet is an        *)
(* Ethernet frame with GTP-U in it, on "upfgtp" a bare IP packet.          *)
(*                                                                         *)
(* Features are in hundredths, to which the code rounds them.              *)
(***************************************************************************)
EXTENDS Integers, Sequences, FiniteSets, FiniteSetsExt

CONSTANTS KnownUes,   \* the UEs the SMF knows
          Subnet,     \* those of them with an address in 10.60.0.0/16
          Peers,      \* whom they talk to
          BitOf,      \* the bit of dst_bitmap each of these is hashed to
          Kinds,      \* which kinds of packets there are
          LengthOf,   \* how long a packet of each kind is
          Extensions, \* how many extension headers GTP-U may have
          MaxArrivals, \* how many packets there are: bounds the model
          Log10       \* 100 * log10(n), rounded, of each number of packets

\* The protocol of a packet, "other" for those without a counter (ESP, GRE,
\* SCTP), and of TCP the flags, in any combination; there are none of a
\* segment too short to have them.
AllKinds ==
  [proto : {"tcp"}, flags : SUBSET {"SYN", "RST", "ACK"}]
    \cup [proto : {"udp", "icmp", "other"}, flags : {{}}]

ASSUME WindowAssumption ==
  /\ IsFiniteSet(KnownUes) /\ Subnet \subseteq KnownUes
  /\ BitOf \in [Peers -> 0..63]
  /\ Kinds \subseteq AllKinds /\ LengthOf \in [Kinds -> Nat \ {0}] /\ Extensions \subseteq Nat
  /\ MaxArrivals \in Nat
  /\ \A n \in 1..MaxArrivals : n \in DOMAIN Log10 /\ Log10[n] \in Nat

AllPackets == [up : BOOLEAN, ue : KnownUes, peer : Peers, kind : Kinds, exts : Extensions]

Is(p, proto) == p.kind.proto = proto
Has(p, flag) == Is(p, "tcp") /\ flag \in p.kind.flags

NoTraffic ==
  [packets |-> 0, bytes |-> 0, tcp |-> 0, udp |-> 0, icmp |-> 0, syn |-> 0, rst |-> 0, flows |-> 0,
   dsts |-> {}, dlPackets |-> 0, dlBytes |-> 0, dlTcp |-> 0, dlAck |-> 0]

VARIABLES device,   \* where the programs are attached
          counters, \* ue_metrics_map; an absent key has NoTraffic
          tracked,  \* flow_tracking_map
          records,  \* what the last poll made of them
          globals,  \* GlobalStats of its batch
          shown,    \* the UEs whose records the model was asked about
          arrivals, \* packets so far
          sent,     \* history: the packets of each UE in this window, but for
                    \* those with more than six extension headers, and how
                    \* many of those sent have a protocol without a counter
          before    \* history: those of the window that was polled last

mapVars == <<counters, tracked>>
pollVars == <<records, globals, shown>>
windowVars == <<device, mapVars, pollVars, arrivals, sent, before>>

NoStats == [stats |-> "nil"]
NoPackets == [u \in KnownUes |-> [up |-> 0, down |-> 0, other |-> 0]]

----------------------------------------------------------------------------
(***************************************************************************)
(* Finding the inner packet.                                               *)
(***************************************************************************)
\* Mutant: one step less.
LocatedInFive(p) == p.exts <= 5

\* gtpu_locate_inner_l3: the step to the next extension, six times.
Located(p) == p.exts <= 6

\* anlf_xdp_main: what is not an Ethernet frame is the inner packet itself.
Uplink(p) == device = "n3" => Located(p)

\* anlf_tc_egress: of bare packets, UDP is GTP-U or nothing.
Downlink(p) ==
  \/ device = "n3" /\ Located(p)
  \/ device = "upfgtp" /\ ~ Is(p, "udp")

IsCounted(p) == p.ue \in Subnet /\ IF p.up THEN Uplink(p) ELSE Downlink(p)

(***************************************************************************)
(* Counting it.                                                            *)
(***************************************************************************)
Flow(p) == [ue |-> p.ue, peer |-> p.peer, tcp |-> Is(p, "tcp")]

NewFlow(p) == (Has(p, "SYN") \/ Is(p, "udp")) /\ Flow(p) \notin tracked

One(b) == IF b THEN 1 ELSE 0

\* update_ue_uplink_metrics.
AddUplink(c, p) ==
  [c EXCEPT !.packets = @ + 1, !.bytes = @ + LengthOf[p.kind], !.tcp = @ + One(Is(p, "tcp")),
            !.udp = @ + One(Is(p, "udp")), !.icmp = @ + One(Is(p, "icmp")),
            !.syn = @ + One(Has(p, "SYN")), !.rst = @ + One(Has(p, "RST")),
            !.flows = @ + One(NewFlow(p)), !.dsts = @ \cup {BitOf[p.peer]}]

\* update_ue_dl_metrics.
AddDownlink(c, p) ==
  [c EXCEPT !.dlPackets = @ + 1, !.dlBytes = @ + LengthOf[p.kind], !.dlTcp = @ + One(Is(p, "tcp")),
            !.dlAck = @ + One(Has(p, "ACK"))]

\* History: what has been sent with p.
Sent(n, p) ==
  [up |-> n.up + One(p.up), down |-> n.down + One(~ p.up),
   other |-> n.other + One(p.up /\ Is(p, "other"))]

Packet(p) ==
  /\ arrivals < MaxArrivals
  /\ device = "upfgtp" => p.exts = Min(Extensions) \* whatever it is
  /\ arrivals' = arrivals + 1
  /\ sent' = [sent EXCEPT ![p.ue] =
               IF device = "n3" /\ p.exts > 6 THEN @ ELSE Sent(@, p)]
  /\ IF IsCounted(p)
     THEN /\ counters' = [counters EXCEPT ![p.ue] =
                           IF p.up THEN AddUplink(@, p) ELSE AddDownlink(@, p)]
          /\ tracked' = IF p.up /\ NewFlow(p) THEN tracked \cup {Flow(p)} ELSE tracked
     ELSE UNCHANGED mapVars
  /\ UNCHANGED <<device, pollVars, before>>

----------------------------------------------------------------------------
(***************************************************************************)
(* The poll.                                                               *)
(***************************************************************************)
\* math.Round of a positive quotient.
Rounded(a, b) == (2 * a + b) \div (2 * b)

Ratio(a, b) == IF b = 0 THEN 0 ELSE Rounded(100 * a, b)

LogOf(n) == IF n = 0 THEN 0 ELSE Log10[n]

\* ConvertToFeatures; the length of the window has no part in it.
Features(c) ==
  [UlLogPPS |-> LogOf(c.packets),
   AvgLen |-> Ratio(c.bytes, c.packets),
   IcmpRatio |-> Ratio(c.icmp, c.packets),
   TcpRatio |-> Ratio(c.tcp, c.packets),
   UdpRatio |-> Ratio(c.udp, c.packets),
   SynRatio |-> Ratio(c.syn, c.packets),
   RstRatio |-> Ratio(c.rst, c.packets),
   NewFlowRate |-> Min({100, Ratio(c.flows, c.packets)}),
   FanOut |-> Ratio(Cardinality(c.dsts), 64),
   DlLogPPS |-> LogOf(c.dlPackets),
   DlAvgLen |-> Ratio(c.dlBytes, c.dlPackets),
   PPSRatio |-> Ratio(c.dlPackets, c.packets),
   ByteRatio |-> Ratio(c.dlBytes, c.bytes),
   AckRatio |-> Ratio(c.dlAck, c.dlTcp)]

\* Mutant: the averages are taken over all UEs.
AverageOfAll(vs) ==
  IF DOMAIN vs = {} THEN 0
  ELSE Rounded(MapThenSumSet(LAMBDA u : vs[u], DOMAIN vs), Cardinality(KnownUes))

\* Of a feature of some UEs; of none, it is 0.
Average(vs) ==
  IF DOMAIN vs = {} THEN 0
  ELSE Rounded(MapThenSumSet(LAMBDA u : vs[u], DOMAIN vs), Cardinality(DOMAIN vs))

UlAverages == {"UlLogPPS", "NewFlowRate", "AvgLen", "FanOut"}
DlAverages == {"DlLogPPS", "DlAvgLen", "PPSRatio", "ByteRatio"}

Active(r) == ~ (r.UlLogPPS = 0 /\ r.AvgLen = 0 /\ r.NewFlowRate = 0)

\* GlobalStats of processBatch.
Globals(rs) ==
  LET active == {u \in KnownUes : Active(rs[u])}
      dlActive == {u \in active : rs[u].DlLogPPS > 0}
  IN IF active = {} THEN NoStats
     ELSE [f \in UlAverages \cup DlAverages |->
            Average([u \in IF f \in UlAverages THEN active ELSE dlActive |-> rs[u][f]])]

\* Mutant: the length of packets is not looked at.
IsEmptyByCount(r) ==
  \A f \in {"UlLogPPS", "NewFlowRate", "SynRatio", "RstRatio"} : r[f] = 0

IsEmptyRecord(r) ==
  \A f \in {"UlLogPPS", "AvgLen", "IcmpRatio", "TcpRatio", "UdpRatio",
            "SynRatio", "RstRatio", "NewFlowRate", "FanOut"} : r[f] = 0

Poll ==
  /\ records' = [u \in KnownUes |-> Features(counters[u])]
  /\ globals' = Globals(records')
  /\ shown' = {u \in KnownUes : ~ IsEmptyRecord(records'[u])}
  /\ counters' = [u \in KnownUes |-> NoTraffic]
  /\ before' = sent
  /\ sent' = NoPackets
  /\ UNCHANGED <<device, tracked, arrivals>>

WindowInit ==
  /\ device \in {"n3", "upfgtp"}
  /\ counters = [u \in KnownUes |-> NoTraffic]
  /\ tracked = {}
  /\ records = [u \in KnownUes |-> Features(NoTraffic)]
  /\ globals = NoStats
  /\ shown = {}
  /\ arrivals = 0
  /\ sent = NoPackets
  /\ before = NoPackets

WindowNext == Poll \/ \E p \in AllPackets : Packet(p)

WindowSpec == WindowInit /\ [][WindowNext]_windowVars

----------------------------------------------------------------------------
(***************************************************************************)
(* Properties.                                                             *)
(***************************************************************************)
FeatureNames == DOMAIN Features(NoTraffic)

UeMetrics ==
  [packets : Nat, bytes : Nat, tcp : Nat, udp : Nat, icmp : Nat, syn : Nat, rst : Nat, flows : Nat,
   dsts : SUBSET (0..63), dlPackets : Nat, dlBytes : Nat, dlTcp : Nat, dlAck : Nat]

WindowTypeOK ==
  /\ device \in {"n3", "upfgtp"}
  /\ counters \in [KnownUes -> UeMetrics]
  /\ tracked \subseteq [ue : Subnet, peer : Peers, tcp : BOOLEAN]
  /\ records \in [KnownUes -> [FeatureNames -> Nat]]
  /\ globals = NoStats \/ globals \in [UlAverages \cup DlAverages -> Nat]
  /\ shown \subseteq KnownUes
  /\ arrivals \in 0..MaxArrivals
  /\ {sent, before} \subseteq [KnownUes -> [up : Nat, down : Nat, other : Nat]]

\* However they are wrapped, the packets of a UE are counted once, for that
\* UE and in their direction, and the counters fit each other: a packet is of
\* one protocol, for which there may be no counter, and new flows come from
\* SYNs and UDP.  A segment may be both SYN and RST.  On "upfgtp" some downlink
\* packets are not counted (see DownlinkIsCounted), on "n3" all are.
CountersMatchTraffic ==
  /\ WindowTypeOK
  /\ \A u \in KnownUes \ Subnet : counters[u] = NoTraffic
  /\ \A u \in Subnet :
       LET c == counters[u] IN
       /\ c.packets = sent[u].up
       /\ c.dlPackets <= sent[u].down
       /\ device = "n3" => c.dlPackets = sent[u].down
       /\ c.packets = c.tcp + c.udp + c.icmp + sent[u].other
       /\ c.syn <= c.tcp /\ c.rst <= c.tcp
       /\ c.flows <= c.syn + c.udp
       /\ Cardinality(c.dsts) <= c.packets
       /\ c.dlAck <= c.dlTcp /\ c.dlTcp <= c.dlPackets

\* The model is asked about a UE exactly if the UE sent something in the
\* window, be it one packet, whose LogPPS is 0, of a protocol that no ratio
\* counts.  A UE that only received is passed over, for the features of the
\* downlink are not looked at, though the comment on isEmptyRecord says that
\* all features are and that the record shows "no traffic activity".
AskedIfItSent ==
  shown = {u \in Subnet : before[u].up > 0}

\* The global averages, which the model is told to compare a UE with, are
\* those of the UEs that sent something: there are none if no UE did, and no
\* idle UE draws them out of the range of the others' features.
AveragesOfActive ==
  LET active == {u \in Subnet : before[u].up > 0}
      InRange(f) == /\ \E u \in active : records[u][f] <= globals[f]
                    /\ \E u \in active : records[u][f] >= globals[f]
  IN IF active = {} THEN globals = NoStats
     ELSE /\ \A f \in UlAverages : InRange(f)
          /\ \A f \in DlAverages : globals[f] = 0 \/ InRange(f)

(***************************************************************************)
(* What the comments and the documents say.                                *)
(***************************************************************************)
\* "On upfgtp, egress traffic is decapsulated inner IP packets going to UE
\* devices (downlink direction)" and "For non-GTP-U traffic (direct IP to UE
\* subnet), process as inner IP" (anlf.c, anlf_tc_egress).
DownlinkIsCounted ==
  \A u \in Subnet : counters[u].dlPackets = sent[u].down

=============================================================================
