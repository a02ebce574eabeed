---------------------------- MODULE EbpfMetrics ----------------------------
(***************************************************************************)
(* ue_metrics_map, shared by the eBPF programs, which count packets in it  *)
(* (update_ue_uplink_metrics and update_ue_dl_metrics, bpf/anlf.c), and by *)
(* the poll loop, which reads and empties it (ReadAndReset, pkg/ebpf/      *)
(* manager.go).  Neither holds a lock over more than one access.           *)
(*                                                                         *)
(* The map is a BPF_MAP_TYPE_HASH with preallocated entries (bpf/include/  *)
(* maps.h): a lookup gives a pointer into the entry, not a copy, and the   *)
(* kernel may hand out a freed entry again at once, even while another     *)
(* CPU still holds a pointer to it.  An update takes a free entry, and     *)
(* there is one more of them for each CPU than the map has keys.           *)
(*                                                                         *)
(* Of the counters an entry has, two are kept: packets, incremented first  *)
(* and read first, and tcp, the kind of counter that is divided by it.     *)
(***************************************************************************)
EXTENDS Integers, FiniteSets, FiniteSetsExt

CONSTANTS Cpus,       \* the CPUs that run the eBPF programs
          Ues,        \* the addresses packets come from or go to
          MaxEntries, \* max_entries of the map
          MaxPackets  \* how many packets are processed: bounds the model

ASSUME MetricsAssumption ==
  /\ IsFiniteSet(Cpus) /\ IsFiniteSet(Ues)
  /\ MaxEntries \in Nat \ {0} /\ MaxPackets \in Nat

Entries == 1..(MaxEntries + Cardinality(Cpus))
NoEntry == 0

Counters == [packets : Nat, tcp : Nat]
Zero == [packets |-> 0, tcp |-> 0]

VARIABLES at,        \* the map: the entry of each key
          val,       \* what each entry holds
          pc, pkt,   \* each CPU: its step, and the packet it processes
          reader,    \* the step of ReadAndReset
          must,      \* the keys its iteration cannot miss
          keys,      \* the keys it has collected
          metrics,   \* and what it has read for them
          copying,   \* the key and the entry it is copying from
          arrived, reported,  \* history: packets of each UE, and those read
          overlapped \* history: those whose processing overlapped another's of
                     \* the same UE or ReadAndReset, or found the map full

cpuVars == <<pc, pkt>>
readVars == <<reader, must, keys, metrics, copying>>
vars == <<at, val, cpuVars, readVars, arrived, reported, overlapped>>

Nothing == [ue |-> "none", entry |-> NoEntry]
NoPacket == [ue |-> "none", tcp |-> FALSE, entry |-> NoEntry, overlaps |-> FALSE]

Init ==
  /\ at = [u \in Ues |-> NoEntry]
  /\ val = [e \in Entries |-> Zero]
  /\ pc = [c \in Cpus |-> "idle"]
  /\ pkt = [c \in Cpus |-> NoPacket]
  /\ reader = "idle"
  /\ must = {}
  /\ keys = {}
  /\ metrics = [u \in Ues |-> Zero]
  /\ copying = Nothing
  /\ arrived = [u \in Ues |-> 0]
  /\ reported = [u \in Ues |-> 0]
  /\ overlapped = [u \in Ues |-> 0]

Present == {u \in Ues : at[u] # NoEntry}
Free == Entries \ {at[u] : u \in Ues}
Total(f) == MapThenSumSet(LAMBDA u : f[u], Ues)

----------------------------------------------------------------------------
(***************************************************************************)
(* The eBPF programs.                                                      *)
(***************************************************************************)
SameUe(c, u) == pc[c] # "idle" /\ pkt[c].ue = u

\* A packet comes and its UE is looked up.
Lookup(c, u, isTcp) ==
  /\ pc[c] = "idle"
  /\ Total(arrived) < MaxPackets
  /\ arrived' = [arrived EXCEPT ![u] = @ + 1]
  /\ pkt' = [d \in Cpus |->
              IF d = c THEN [ue |-> u, tcp |-> isTcp, entry |-> at[u],
                             overlaps |-> reader # "idle" \/ \E b \in Cpus : SameUe(b, u)]
              ELSE IF SameUe(d, u) THEN [pkt[d] EXCEPT !.overlaps = TRUE]
              ELSE pkt[d]]
  /\ pc' = [pc EXCEPT ![c] = IF at[u] = NoEntry THEN "insert" ELSE "addPacket"]
  /\ UNCHANGED <<at, val, readVars, reported, overlapped>>

Leave(c, excused) ==
  /\ pc' = [pc EXCEPT ![c] = "idle"]
  /\ pkt' = [pkt EXCEPT ![c] = NoPacket]
  /\ overlapped' = [overlapped EXCEPT ![pkt[c].ue] = @ + IF excused THEN 1 ELSE 0]
  /\ UNCHANGED <<readVars, arrived, reported>>

\* __sync_fetch_and_add, through the pointer the lookup gave.
AddPacket(c) ==
  /\ pc[c] = "addPacket"
  /\ val' = [val EXCEPT ![pkt[c].entry].packets = @ + 1]
  /\ pc' = [pc EXCEPT ![c] = "addTcp"]
  /\ UNCHANGED <<at, pkt, readVars, arrived, reported, overlapped>>

AddTcp(c) ==
  /\ pc[c] = "addTcp"
  /\ val' = [val EXCEPT ![pkt[c].entry].tcp = @ + IF pkt[c].tcp THEN 1 ELSE 0]
  /\ Leave(c, pkt[c].overlaps)
  /\ UNCHANGED at

\* Mutant: a new entry starts without the packet that made it.
FirstOfZero(c) == Zero

First(c) == [packets |-> 1, tcp |-> IF pkt[c].tcp THEN 1 ELSE 0]

\* Mutant: a map without max_entries.
NeverFull(u) == FALSE

Full(u) == u \notin Present /\ Cardinality(Present) = MaxEntries

\* bpf_map_update_elem with BPF_ANY: it replaces the entry that another CPU
\* may have made meanwhile.
Insert(c) ==
  /\ pc[c] = "insert"
  /\ ~ Full(pkt[c].ue)
  /\ \E e \in Free :
       /\ at' = [at EXCEPT ![pkt[c].ue] = e]
       /\ val' = [val EXCEPT ![e] = First(c)]
  /\ Leave(c, pkt[c].overlaps)

\* The error of an update for which there is no room is ignored.
Drop(c) ==
  /\ pc[c] = "insert"
  /\ Full(pkt[c].ue)
  /\ Leave(c, TRUE)
  /\ UNCHANGED <<at, val>>

Cpu(c) ==
  \/ \E u \in Ues, isTcp \in BOOLEAN : Lookup(c, u, isTcp)
  \/ AddPacket(c) \/ AddTcp(c) \/ Insert(c) \/ Drop(c)

----------------------------------------------------------------------------
(***************************************************************************)
(* ReadAndReset.  The iteration meets every key that is there from its     *)
(* start, and may or may not meet one that was inserted since.             *)
(***************************************************************************)
BeginRead ==
  /\ reader = "idle"
  /\ reader' = "next"
  /\ must' = Present
  /\ keys' = {}
  /\ metrics' = [u \in Ues |-> Zero]
  /\ pkt' = [c \in Cpus |-> IF pc[c] = "idle" THEN pkt[c] ELSE [pkt[c] EXCEPT !.overlaps = TRUE]]
  /\ UNCHANGED <<at, val, pc, copying, arrived, reported, overlapped>>

\* The kernel copies the entry counter by counter.
ReadPackets(u) ==
  /\ reader = "next"
  /\ u \in Present \ keys
  /\ reader' = "copy"
  /\ copying' = [ue |-> u, entry |-> at[u]]
  /\ metrics' = [metrics EXCEPT ![u].packets = val[at[u]].packets]
  /\ UNCHANGED <<at, val, cpuVars, must, keys, arrived, reported, overlapped>>

ReadTcp ==
  /\ reader = "copy"
  /\ reader' = "next"
  /\ metrics' = [metrics EXCEPT ![copying.ue].tcp = val[copying.entry].tcp]
  /\ keys' = keys \cup {copying.ue}
  /\ copying' = Nothing
  /\ UNCHANGED <<at, val, cpuVars, must, arrived, reported, overlapped>>

EndIteration ==
  /\ reader = "next"
  /\ must \subseteq keys
  /\ reader' = "delete"
  /\ must' = keys
  /\ UNCHANGED <<at, val, cpuVars, keys, metrics, copying, arrived, reported, overlapped>>

\* Mutant: the map is read but not emptied, as by ReadMetrics.
Keep(u) ==
  /\ reader = "delete"
  /\ u \in must
  /\ must' = must \ {u}
  /\ UNCHANGED <<at, val, cpuVars, reader, keys, metrics, copying, arrived, reported, overlapped>>

\* The errors of Delete are ignored.
Delete(u) ==
  /\ reader = "delete"
  /\ u \in must
  /\ at' = [at EXCEPT ![u] = NoEntry]
  /\ must' = must \ {u}
  /\ UNCHANGED <<val, cpuVars, reader, keys, metrics, copying, arrived, reported, overlapped>>

Return ==
  /\ reader = "delete"
  /\ must = {}
  /\ reader' = "idle"
  /\ reported' = [u \in Ues |-> reported[u] + metrics[u].packets]
  /\ UNCHANGED <<at, val, cpuVars, must, keys, metrics, copying, arrived, overlapped>>

Reader ==
  \/ BeginRead \/ ReadTcp \/ EndIteration \/ Return
  \/ \E u \in Ues : ReadPackets(u) \/ Delete(u)

Next == Reader \/ \E c \in Cpus : Cpu(c)

Spec == Init /\ [][Next]_vars

----------------------------------------------------------------------------
(***************************************************************************)
(* Properties.                                                             *)
(***************************************************************************)
Packets == [ue : Ues, tcp : BOOLEAN, entry : Entries \cup {NoEntry}, overlaps : BOOLEAN]

TypeOK ==
  /\ at \in [Ues -> Entries \cup {NoEntry}]
  /\ val \in [Entries -> Counters]
  /\ pc \in [Cpus -> {"idle", "insert", "addPacket", "addTcp"}]
  /\ pkt \in [Cpus -> Packets \cup {NoPacket}]
  /\ \A c \in Cpus :
       IF pc[c] = "idle" THEN pkt[c] = NoPacket
       ELSE pkt[c] \in Packets
  /\ reader \in {"idle", "next", "copy", "delete"}
  /\ must \subseteq Ues /\ keys \subseteq Ues
  /\ metrics \in [Ues -> Counters]
  /\ arrived \in [Ues -> Nat] /\ reported \in [Ues -> Nat] /\ overlapped \in [Ues -> Nat]
  /\ reader = "copy" => copying \in [ue : Ues, entry : Entries]

Counted(u) == reported[u] + IF at[u] = NoEntry THEN 0 ELSE val[at[u]].packets

\* An entry belongs to one UE, however CPUs race to insert, and the map has
\* no more keys than it may.
EntriesAreOwned ==
  /\ \A u, v \in Present : at[u] = at[v] => u = v
  /\ Cardinality(Present) <= MaxEntries

\* A packet that is not known to overlap is the only one of its UE, the
\* reader sleeps, and the pointer its CPU holds is still that of its UE.
OverlapsAreNoted ==
  \A c \in Cpus : pc[c] # "idle" =>
    /\ pc[c] \in {"addPacket", "addTcp"} => pkt[c].entry # NoEntry
    /\ \/ pkt[c].overlaps
       \/ /\ reader = "idle"
          /\ \A d \in Cpus : d # c => ~ SameUe(d, pkt[c].ue)
          /\ pc[c] \in {"addPacket", "addTcp"} => at[pkt[c].ue] = pkt[c].entry

\* The packets of a UE that were processed without an overlap.
InFlight(u) == {c \in Cpus : SameUe(c, u)}
Clean(u) == arrived[u] - overlapped[u] - Cardinality(InFlight(u))

\* A CPU that has found no entry for u will replace what is there by then.
Replacing(u) == \E c \in Cpus : pc[c] = "insert" /\ pkt[c].ue = u

\* The reader has begun to copy the entry of u.
Collected(u) == u \in keys \/ (reader = "copy" /\ copying.ue = u)

\* Where the packets are that must not be lost: reported, read, or still in
\* the map, in an entry that nobody will replace before it is read.
CleanAreSafe ==
  \A u \in Ues :
    /\ reader = "idle" =>
         /\ Clean(u) <= Counted(u)
         /\ Replacing(u) => Clean(u) <= reported[u]
         /\ \A c \in Cpus : pc[c] = "addTcp" /\ pkt[c].ue = u /\ ~ pkt[c].overlaps
              => Clean(u) < Counted(u)
    /\ reader \in {"next", "copy"} =>
         \/ Clean(u) <= reported[u]
         \/ Collected(u) /\ Clean(u) <= reported[u] + metrics[u].packets
         \/ /\ u \in must /\ at[u] # NoEntry
            /\ ~ Collected(u) /\ ~ Replacing(u)
            /\ Clean(u) <= Counted(u)
    /\ reader = "delete" => Clean(u) <= reported[u] + metrics[u].packets

\* The entry of u was copied, and is going to be deleted with what is added
\* to it meanwhile.
Doomed(u) ==
  \/ reader \in {"next", "copy"} /\ Collected(u)
  \/ reader = "delete" /\ u \in must

\* What has been counted for u and will be reported.
Held(u) ==
  reported[u] + (IF reader = "idle" THEN 0 ELSE metrics[u].packets)
              + (IF Doomed(u) \/ at[u] = NoEntry THEN 0 ELSE val[at[u]].packets)

\* The CPUs whose packet is not counted yet.
Uncounted == {c \in Cpus : pc[c] \in {"insert", "addPacket"}}

\* Each packet is held once at most, whoever's entry it was added to.
HeldOnce ==
  /\ reader # "idle" => \A u \in Ues : Collected(u) \/ metrics[u].packets = 0
  /\ Total([u \in Ues |-> Held(u)]) + Cardinality(Uncounted) <= Total(arrived)

Inductive ==
  /\ TypeOK /\ EntriesAreOwned /\ OverlapsAreNoted
  /\ CleanAreSafe /\ HeldOnce

\* Between two calls of ReadAndReset, no more packets have been reported or
\* are waiting in the map than have been processed, although one may have
\* been added to the entry of another UE ("avoids counting twice").
NeverOvercounted ==
  reader = "idle" => Total([u \in Ues |-> Counted(u)]) <= Total(arrived)

\* Once a UE's packets are processed, those of them that are missing are no
\* more than those that met another CPU or ReadAndReset while they were
\* processed, or a full map: a CPU alone, with the reader asleep and room
\* in the map, loses nothing.
LossIsBounded ==
  \A u \in Ues :
    reader = "idle" /\ (\A c \in Cpus : ~ SameUe(c, u))
      => arrived[u] - Counted(u) <= overlapped[u]

=============================================================================
