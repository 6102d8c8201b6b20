------------------------------ MODULE Discovery ------------------------------
(***************************************************************************)
(* PeerDiscovery of peerq/discovery.py at one node with security enabled,  *)
(* the ReplayCache of peerq/security.py that it consults, the broadcast    *)
(* transport it listens on, and the PeerNode it is bound to.               *)
(*                                                                         *)
(* Time is relative: beacons, cache entries and directory entries have an  *)
(* age.  Wall clocks agree.  The air holds the datagrams that were sent    *)
(* and not lost; each may be delivered late, never, or more than once.  A  *)
(* nonce stands for a random number: it is used again only when no trace   *)
(* of its first use is left.                                               *)
(***************************************************************************)
EXTENDS Naturals, Sequences, FiniteSets

CONSTANTS
    Senders,        \* the nodes whose beacons reach this one
    Ignored,        \* the senders that are of another cluster, or this node itself
    Addresses,      \* host and port of a sender
    Nonces,         \* bound: beacons of which there are traces at a time
    MaxCopies,      \* bound: copies of a datagram that the network delivers
    BeaconInterval, \* beacon_interval
    Ttl,            \* peer_ttl
    ScanInterval,   \* peer_ttl / 2
    ReplayWindow,   \* replay_window_seconds
    CacheSize,      \* replay_cache_size
    InboxSize,      \* max_inbox_size
    MaxPeers,       \* max_peers
    MaxStarts       \* bound: restarts of a sender

ASSUME DiscoveryAssumption ==
    /\ Ignored \subseteq Senders
    /\ BeaconInterval \in Nat \ {0} /\ ScanInterval \in Nat \ {0}
    /\ Ttl \in Nat /\ ReplayWindow \in Nat /\ MaxCopies \in Nat \ {0}
    /\ CacheSize \in Nat \ {0} /\ InboxSize \in Nat \ {0} /\ MaxPeers \in Nat \ {0}

VARIABLES
    running,    \* running[s]: sender s runs
    address,    \* address[s]: where s listens
    starts,     \* starts[s]: restarts of s so far
    timer,      \* timer[s]: the _announce_loop of s sleeps that long
    air,        \* the datagrams that are under way
    inbox,      \* _inbox of the broadcast transport
    cache,      \* _replay_cache: nonces with the age of their entry, oldest first
    peers,      \* _peers: address and age of last_seen
    scan,       \* the _ttl_loop sleeps that long
    node,       \* peers and transport.peer_addresses of the bound node
    applied     \* history: the nonces whose beacon went into the directory

discoveryVars == <<running, address, starts, timer, air, inbox, cache, peers, scan, node, applied>>

Unknown == [address |-> 0, age |-> 0]

(* A datagram, with the number of copies of it that are still to come *)
Beacon == [nonce : Nonces, from : Senders, address : Addresses,
           age : 0 .. ReplayWindow + 1, copies : 0 .. MaxCopies]

DiscoveryInit ==
    /\ running = [s \in Senders |-> TRUE]
    /\ address \in [Senders -> Addresses]
    /\ starts = [s \in Senders |-> 0]
    /\ timer = [s \in Senders |-> 0]
    /\ air = {}
    /\ inbox = <<>>
    /\ cache = <<>>
    /\ peers = [s \in Senders |-> Unknown]
    /\ scan = ScanInterval
    /\ node = [s \in Senders |-> 0]
    /\ applied = {}

UnderWay == air \cup {inbox[i] : i \in DOMAIN inbox}

Directory == {s \in Senders : peers[s] # Unknown}

-----------------------------------------------------------------------------
(* ReplayCache *)

(* Expired entries are popped from the front, up to the first that is not. *)
Unexpired(entries) ==
    LET first == CHOOSE i \in 1 .. Len(entries) + 1 :
                     /\ \A j \in 1 .. i - 1 : entries[j].age > ReplayWindow
                     /\ i <= Len(entries) => entries[i].age <= ReplayWindow
    IN  SubSeq(entries, first, Len(entries))

Remembers(entries, nonce) == \E i \in DOMAIN entries : entries[i].nonce = nonce

(* Mutant: a full cache does not take a new nonce *)
Remember_KeepsOld(entries, nonce) ==
    LET kept == Unexpired(entries)
    IN  IF Len(kept) = CacheSize \/ Remembers(kept, nonce) THEN kept
        ELSE Append(kept, [nonce |-> nonce, age |-> 0])

(* The cache after check_and_remember *)
Remember(entries, nonce) ==
    LET kept == Unexpired(entries)
        all == Append(kept, [nonce |-> nonce, age |-> 0])
    IN  IF Remembers(kept, nonce) THEN kept
        ELSE IF Len(all) > CacheSize THEN Tail(all) ELSE all

-----------------------------------------------------------------------------
(* Senders and the network *)

(* Nothing is left of the last use of a nonce. *)
Free(nonce) ==
    /\ \A b \in UnderWay : b.nonce # nonce
    /\ ~ Remembers(Unexpired(cache), nonce)

(* _announce_loop *)
Announce(s) ==
    /\ running[s] /\ timer[s] = 0
    /\ \E nonce \in Nonces :
          /\ Free(nonce)
          /\ air' = air \cup {[nonce |-> nonce, from |-> s, address |-> address[s],
                               age |-> 0, copies |-> MaxCopies]}
          /\ applied' = applied \ {nonce}
    /\ timer' = [timer EXCEPT ![s] = BeaconInterval]
    /\ UNCHANGED <<running, address, starts, inbox, cache, peers, scan, node>>

(* A copy of a datagram arrives.  A full inbox drops it. *)
DatagramReceived(b) ==
    /\ Len(inbox) < InboxSize
    /\ inbox' = Append(inbox, [b EXCEPT !.copies = 0])
    /\ air' = (air \ {b}) \cup (IF b.copies = 1 THEN {} ELSE {[b EXCEPT !.copies = @ - 1]})
    /\ UNCHANGED <<running, address, starts, timer, cache, peers, scan, node, applied>>

StopSender(s) ==
    /\ running[s] /\ s \notin Ignored
    /\ running' = [running EXCEPT ![s] = FALSE]
    /\ UNCHANGED <<address, starts, timer, air, inbox, cache, peers, scan, node, applied>>

(* A sender is started again, perhaps elsewhere. *)
StartSender(s, a) ==
    /\ ~ running[s] /\ starts[s] < MaxStarts
    /\ running' = [running EXCEPT ![s] = TRUE]
    /\ address' = [address EXCEPT ![s] = a]
    /\ starts' = [starts EXCEPT ![s] = @ + 1]
    /\ timer' = [timer EXCEPT ![s] = 0]
    /\ UNCHANGED <<air, inbox, cache, peers, scan, node, applied>>

-----------------------------------------------------------------------------
(* The node *)

(* _listen_loop lets the beacon into the directory. *)
Accepts(b) ==
    /\ b.age <= ReplayWindow
    /\ ~ Remembers(Unexpired(cache), b.nonce)
    /\ b.from \notin Ignored
    /\ b.from \in Directory \/ Cardinality(Directory) < MaxPeers

(* _on_discovered of bind_node: the node learns the peer and its address. *)
OnDiscovered(s, a) ==
    IF node[s] # 0 \/ Cardinality({p \in Senders : node[p] # 0}) < MaxPeers
    THEN [node EXCEPT ![s] = a] ELSE node

(* Mutant: a known peer is only seen again, its address stays *)
Entered_KeepsAddress(b) ==
    [peers EXCEPT ![b.from] =
        [address |-> IF @ = Unknown THEN b.address ELSE @.address, age |-> 0]]

(* The new DiscoveredPeer replaces the old one. *)
Entered(b) == [peers EXCEPT ![b.from] = [address |-> b.address, age |-> 0]]

(* One round of _listen_loop *)
Listen ==
    LET b == Head(inbox)
    IN  /\ inbox # <<>>
        /\ inbox' = Tail(inbox)
        /\ cache' = IF b.age <= ReplayWindow THEN Remember(cache, b.nonce) ELSE cache
        /\ IF Accepts(b)
           THEN /\ peers' = Entered(b)
                /\ node' = IF b.from \in Directory THEN node ELSE OnDiscovered(b.from, b.address)
                /\ applied' = applied \cup {b.nonce}
           ELSE UNCHANGED <<peers, node, applied>>
        /\ UNCHANGED <<running, address, starts, timer, air, scan>>

(* Mutant: the age is compared for equality, and a late scan misses it *)
Expired_Exact(s) == peers[s] # Unknown /\ peers[s].age = Ttl

Expired(s) == peers[s] # Unknown /\ peers[s].age > Ttl

(* One round of _ttl_loop *)
TtlScan ==
    /\ scan = 0
    /\ scan' = ScanInterval
    /\ peers' = [s \in Senders |-> IF Expired(s) THEN Unknown ELSE peers[s]]
    /\ UNCHANGED <<running, address, starts, timer, air, inbox, cache, node, applied>>

Older(age, limit) == IF age > limit THEN age ELSE age + 1

Sooner(t) == IF t = 0 THEN 0 ELSE t - 1

(* A tick is long compared to a round of _listen_loop.  A datagram whose    *)
(* timestamp is no longer fresh does not stay in the air for another tick.  *)
Tick ==
    /\ inbox = <<>>
    /\ timer' = [s \in Senders |-> Sooner(timer[s])]
    /\ scan' = Sooner(scan)
    /\ air' = {[b EXCEPT !.age = @ + 1] : b \in {c \in air : c.age <= ReplayWindow}}
    /\ cache' = [i \in DOMAIN cache |-> [cache[i] EXCEPT !.age = Older(@, ReplayWindow)]]
    /\ peers' = [s \in Senders |-> IF peers[s] = Unknown THEN Unknown
                                   ELSE [peers[s] EXCEPT !.age = Older(@, Ttl)]]
    /\ UNCHANGED <<running, address, starts, inbox, node, applied>>

DiscoveryNext ==
    \/ \E s \in Senders : Announce(s)
    \/ \E b \in air : DatagramReceived(b)
    \/ \E s \in Senders : StopSender(s)
    \/ \E s \in Senders, a \in Addresses : StartSender(s, a)
    \/ Listen
    \/ TtlScan
    \/ Tick

DiscoverySpec == DiscoveryInit /\ [][DiscoveryNext]_discoveryVars

-----------------------------------------------------------------------------
(* Types and limits: the inbox and the replay cache never exceed the sizes *)
(* that SecurityConfig sets for them.                                      *)
DiscoveryTypeOK ==
    /\ running \in [Senders -> BOOLEAN]
    /\ address \in [Senders -> Addresses]
    /\ timer \in [Senders -> 0 .. BeaconInterval] /\ scan \in 0 .. ScanInterval
    /\ air \subseteq Beacon
    /\ inbox \in Seq(Beacon) /\ Len(inbox) <= InboxSize
    /\ cache \in Seq([nonce : Nonces, age : 0 .. ReplayWindow + 1]) /\ Len(cache) <= CacheSize
    /\ peers \in [Senders -> [address : Addresses, age : 0 .. Ttl + 1] \cup {Unknown}]
    /\ node \in [Senders -> Addresses \cup {0}]
    /\ applied \subseteq Nonces

(* A beacon is applied a second time only after CacheSize others were: as   *)
(* long as a copy of an applied beacon is under way and its timestamp is    *)
(* fresh enough to pass, the replay cache holds its nonce, or it is full of *)
(* entries that were made later.  check_and_remember prunes by the time of  *)
(* the entry, the listener by the timestamp of the message, and a full      *)
(* cache evicts its oldest entry although the window of it is still open.   *)
RememberedUnlessFull ==
    LET kept == Unexpired(cache)
    IN  \A b \in UnderWay :
            b.nonce \in applied /\ b.age <= ReplayWindow =>
                \/ Remembers(kept, b.nonce)
                \/ Len(kept) = CacheSize /\ \A i \in DOMAIN kept : kept[i].age <= b.age

(* Fairness.  The loops go on, time passes, and of the beacons that a      *)
(* sender keeps sending some arrive: a new beacon that can be delivered    *)
(* again and again is not lost every time.  Announce is strongly fair      *)
(* because the bound on the nonces, which the code does not have, may      *)
(* disable it for a while.                                                 *)
DeliverNew(s) ==
    \E b \in air :
        /\ b.from = s /\ b.address = address[s] /\ b.age <= ReplayWindow
        /\ b.nonce \notin applied
        /\ DatagramReceived(b)

FairSpec ==
    /\ DiscoverySpec
    /\ WF_discoveryVars(Listen) /\ WF_discoveryVars(TtlScan) /\ WF_discoveryVars(Tick)
    /\ \A s \in Senders \ Ignored : SF_discoveryVars(Announce(s)) /\ SF_discoveryVars(DeliverNew(s))

(* A node that runs is found, again and again, where it listens now: late  *)
(* beacons of an earlier start may put an old address into the directory,  *)
(* but it does not stay there.                                             *)
DirectoryCatchesUp ==
    \A s \in Senders \ Ignored : []<>(running[s] => peers[s].address = address[s])

(* "If a peer stops broadcasting, it is automatically purged from the      *)
(* active directory" (ADR 0007), and no late beacon brings it back for     *)
(* good.                                                                   *)
DeadIsForgotten ==
    \A s \in Senders : <>[](~ running[s]) => <>[](peers[s] = Unknown)

=============================================================================
