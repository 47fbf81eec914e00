---------------------------- MODULE LanDiscovery ----------------------------
(***************************************************************************)
(* LanDiscovery: the socket on which hosts advertise themselves, the table *)
(* of hosts heard of and the queue of those not yet handed out.            *)
(*                                                                         *)
(* Packets of other kinds, and the queries and beacons that are sent, move *)
(* nothing here: a client is told of a host by a beacon, whatever made the *)
(* host send it.                                                           *)
(***************************************************************************)
EXTENDS Integers, Sequences, SequencesExt, FiniteSets

CONSTANTS
    Hosts,          \* address and port of the hosts of this network
    HostExpiry      \* kHostExpiryMs, in frames

ASSUME LanDiscoveryAssumption == IsFiniteSet(Hosts) /\ HostExpiry \in Nat

VARIABLES
    mode,               \* mode_host, mode_client, or neither
    running,            \* and with it whether the socket is open
    discovered_hosts,   \* host -> frames since last_seen_ms
    pending_hosts,
    inbox               \* hosts whose beacon is in the buffer of the socket

discovery == <<mode, running, discovered_hosts, pending_hosts, inbox>>

Ages == 0..(HostExpiry + 1)
NoHosts == [h \in {} |-> 0]
Known == DOMAIN discovered_hosts

DiscoveryTypeOK ==
    /\ mode \in {"off", "host", "client"}
    /\ running \in BOOLEAN
    /\ Known \subseteq Hosts
    /\ \A h \in Known : discovered_hosts[h] \in Ages
    /\ pending_hosts \in Seq(Hosts)
    /\ inbox \subseteq Hosts

DiscoveryInit ==
    /\ mode = "off"
    /\ running = FALSE
    /\ discovered_hosts = NoHosts
    /\ pending_hosts = <<>>
    /\ inbox = {}

\* stop(): closing the socket drops what it has received.
Stopped(m, open) ==
    /\ mode' = m
    /\ running' = open
    /\ discovered_hosts' = NoHosts
    /\ pending_hosts' = <<>>
    /\ inbox' = {}

StopDiscovery == Stopped("off", FALSE)

\* start_host and start_client: they keep the mode when the socket cannot be opened.
StartHost(opened) == Stopped("host", opened)
StartClient(opened) == Stopped("client", opened)

\* upsert_host of every beacon received, then the expiry of hosts not heard of: the
\* table and the order in which new hosts are queued.
HostsAfterPump ==
    [h \in inbox \cup {k \in Known : discovered_hosts[k] <= HostExpiry} |->
        IF h \in inbox THEN 0 ELSE discovered_hosts[h]]

\* mutant: the table is kept but the queue forgotten
QueuesNothing == {pending_hosts}

\* What pending_hosts can be after pump()
QueuesAfterPump ==
    {pending_hosts \o new : new \in SetToSeqs(inbox \ Known)}

\* pump(), when it leaves pending_hosts to the caller
Pump ==
    /\ discovered_hosts' = IF running THEN HostsAfterPump ELSE discovered_hosts
    /\ inbox' = {}
    /\ UNCHANGED <<mode, running>>

\* recvfrom will find a beacon of h.
BeaconArrives(h) ==
    /\ running /\ mode = "client"
    /\ inbox' = inbox \cup {h}
    /\ UNCHANGED <<mode, running, discovered_hosts, pending_hosts>>

\* A frame of time goes by.
TimePasses ==
    /\ discovered_hosts' = [h \in Known |-> IF discovered_hosts[h] > HostExpiry
                                            THEN discovered_hosts[h]
                                            ELSE discovered_hosts[h] + 1]
    /\ UNCHANGED <<mode, running, pending_hosts, inbox>>
=============================================================================
