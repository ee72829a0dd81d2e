-------------------------------- MODULE Peers --------------------------------
(***************************************************************************)
(* apps/scytale-node/src/network/p2p.rs: the task that owns the libp2p     *)
(* swarm (external), the peers it knows and keeps in known_peers.json, and *)
(* the three bounded channels between it and the inbound task of main.rs,  *)
(* which answers requests for blocks and asks for them.                    *)
(*                                                                         *)
(* Each task handles one event at a time.  The swarm task waits when the   *)
(* inbound channel is full, and while it waits takes nothing from the      *)
(* other two; the inbound task waits when one of those two is full.        *)
(***************************************************************************)
EXTENDS Naturals, Sequences, FiniteSets, FiniteSetsExt, SequencesExt

CONSTANTS
  Remote,        \* peer ids
  SubnetKey,     \* subnet_key of the peer's address; NoSubnet for a private one
  NoSubnet,
  Bootnode,      \* peers whose address is configured
  MaxPerSubnet,  \* max_peers_per_subnet
  MaxKnown,      \* MAX_KNOWN_PEERS
  MaxFailures,   \* MAX_PEER_FAILURES
  MaxStrikes,    \* INVALID_GOSSIP_MESSAGES_BEFORE_DISCONNECT
  MaxRate,       \* MAX_REQUESTS_PER_PEER_PER_SECOND
  Second,        \* the length of the window, in ticks
  InboundSize, AnswersSize, OutboundSize,  \* capacities: 256, 64 and 256
  MaxTicks,      \* bound on time
  MaxEvents      \* bound: messages and dials that fail

ASSUME PeersAssumption == MaxRate \in Nat \ {0} /\ Second \in Nat \ {0}

VARIABLES
  link,      \* connections of the swarm: "none", "up" or "closing"
  listed,    \* connected_addresses and the list in P2pStatus
  known,     \* known_peers: peer -> failures and last_seen
  file,      \* known_peers.json
  strikes,   \* invalid_gossip
  recent,    \* request_windows
  grants,    \* history: when requests of each peer were passed on
  clock,
  swarm,     \* "loop", "passing" a message on, or "ended"
  inbound,   \* the inbound channel, with what the swarm task waits to add
  answers,   \* answers in the channel to the swarm task
  outbound,  \* requests in the channel to the swarm task
  task,      \* the inbound task: "idle", "answering", "asking" or "gone"
  events     \* messages and failures so far

peerVars == <<link, listed, known, file, strikes, recent, grants, clock,
              swarm, inbound, answers, outbound, task, events>>

linkVars  == <<link, listed>>
knownVars == <<known, file>>
queueVars == <<swarm, inbound, answers, outbound, task>>
countVars == <<strikes, recent, grants, clock, events>>

(***************************************************************************)
(* Known peers.                                                            *)
(***************************************************************************)

\* Fewer failures first, then the ones seen last; ties by the order of the list.
Before(k, p, q) ==
  \/ k[p].failures < k[q].failures
  \/ k[p].failures = k[q].failures /\ k[p].seen > k[q].seen

\* retain, sort and truncate of save_known_peers; a tie may go either way.
Trimmed(k) ==
  LET usable == {p \in DOMAIN k : k[p].failures < MaxFailures}
  IN  {[p \in S |-> k[p]] : S \in {T \in SUBSET usable :
         /\ Cardinality(T) = Min({Cardinality(usable), MaxKnown})
         /\ \A p \in T, q \in usable \ T : ~ Before(k, q, p)}}

\* save_known_peers writes another file and renames it; an error is logged.
Save(k) ==
  \E t \in Trimmed(k) :
    /\ known' = t
    /\ file' = t \/ UNCHANGED file

(***************************************************************************)
(* Connections.                                                            *)
(***************************************************************************)

PeersInit ==
  /\ link = [p \in Remote |-> "none"] /\ listed = {}
  /\ known = << >> /\ file = << >>
  /\ strikes = [p \in Remote |-> 0]
  /\ recent = [p \in Remote |-> << >>] /\ grants = [p \in Remote |-> << >>]
  /\ clock = 0 /\ events = 0
  /\ swarm = "loop" /\ inbound = << >> /\ answers = 0 /\ outbound = 0 /\ task = "idle"

\* subnet_connection_allowed
SubnetAllows(p) ==
  \/ SubnetKey[p] = NoSubnet
  \/ Cardinality({q \in listed : SubnetKey[q] = SubnetKey[p]}) < MaxPerSubnet

\* A connection over the limit is closed and never listed.
ConnectionEstablished(p) ==
  /\ swarm = "loop" /\ link[p] = "none"
  /\ IF p \in Bootnode \/ SubnetAllows(p)
     THEN /\ link' = [link EXCEPT ![p] = "up"]
          /\ listed' = listed \cup {p}
          /\ Save([q \in DOMAIN known \cup {p} |->
                     IF q = p THEN [failures |-> 0, seen |-> clock] ELSE known[q]])
     ELSE link' = [link EXCEPT ![p] = "closing"] /\ UNCHANGED <<listed, knownVars>>
  /\ UNCHANGED <<queueVars, countVars>>

ConnectionClosed(p) ==
  /\ swarm = "loop" /\ link[p] # "none"
  /\ link' = [link EXCEPT ![p] = "none"]
  /\ listed' = listed \ {p}
  /\ UNCHANGED <<knownVars, queueVars, countVars>>

Counted == events < MaxEvents /\ events' = events + 1

OutgoingConnectionError(p) ==
  /\ swarm = "loop" /\ Counted
  /\ Save([q \in DOMAIN known |->
                    IF q = p THEN [known[q] EXCEPT !.failures = @ + 1] ELSE known[q]])
  /\ UNCHANGED <<linkVars, queueVars, strikes, recent, grants, clock>>

(***************************************************************************)
(* Messages.                                                               *)
(***************************************************************************)

\* Bytes that are no block or transaction; the count outlives the connection.
InvalidGossip(p) ==
  /\ swarm = "loop" /\ link[p] = "up" /\ Counted
  /\ strikes' = [strikes EXCEPT ![p] = @ + 1]
  /\ link' = IF strikes[p] + 1 >= MaxStrikes THEN [link EXCEPT ![p] = "closing"] ELSE link
  /\ UNCHANGED <<listed, knownVars, queueVars, recent, grants, clock>>

\* inbound_tx.send(..).await
PassOn(m) == swarm' = "passing" /\ inbound' = Append(inbound, m) /\ UNCHANGED <<answers, outbound, task>>

\* A block, a transaction, an identify message or an answer
OtherMessage(p) ==
  /\ swarm = "loop" /\ link[p] = "up" /\ Counted
  /\ PassOn("other")
  /\ UNCHANGED <<linkVars, knownVars, strikes, recent, grants, clock>>

\* The positions of the requests that came less than n ticks ago
Within(p, n) == {i \in DOMAIN recent[p] : clock - recent[p][i] < n}

\* VecDeque::retain: what stands in s at the positions K, in its order
Retain(s, K) ==
  [i \in 1 .. Cardinality(K) |-> s[CHOOSE k \in K : Cardinality({j \in K : j <= k}) = i]]

\* Mutant of Recent: a window that starts with the request before.
MutRecent(p) == Retain(recent[p], Within(p, Second - 1))

\* The window of a peer, pruned
Recent(p) == Retain(recent[p], Within(p, Second))

\* Requests over the rate or over MAX_GET_BLOCKS_HASHES get an empty answer at once, and
\* do not count.
SyncRequest(p, withinBatch) ==
  /\ swarm = "loop" /\ link[p] = "up" /\ Counted
  /\ IF Len(Recent(p)) < MaxRate /\ withinBatch
     THEN /\ recent' = [recent EXCEPT ![p] = Append(Recent(p), clock)]
          /\ grants' = [grants EXCEPT ![p] = Append(@, clock)]
          /\ PassOn("request")
     ELSE recent' = [recent EXCEPT ![p] = Recent(p)] /\ UNCHANGED <<grants, queueVars>>
  /\ UNCHANGED <<linkVars, knownVars, strikes, clock>>

Ticks == clock < MaxTicks /\ clock' = clock + 1
         /\ UNCHANGED <<linkVars, knownVars, queueVars, strikes, recent, grants, events>>

(***************************************************************************)
(* The two tasks.                                                          *)
(***************************************************************************)

\* There was room in the channel.
Passed ==
  /\ swarm = "passing" /\ task # "gone" /\ Len(inbound) <= InboundSize
  /\ swarm' = "loop"
  /\ UNCHANGED <<linkVars, knownVars, countVars, inbound, answers, outbound, task>>

\* The receiver is gone: the loop ends and the peers are saved.
PassFailed ==
  /\ swarm = "passing" /\ task = "gone"
  /\ swarm' = "ended"
  /\ Save(known)
  /\ UNCHANGED <<linkVars, countVars, inbound, answers, outbound, task>>

SendAnswer ==
  /\ swarm = "loop" /\ answers > 0
  /\ answers' = answers - 1
  /\ UNCHANGED <<linkVars, knownVars, countVars, swarm, inbound, outbound, task>>

\* A request of this node goes to a peer.
SendRequest ==
  /\ swarm = "loop" /\ outbound > 0
  /\ outbound' = outbound - 1
  /\ UNCHANGED <<linkVars, knownVars, countVars, swarm, inbound, answers, task>>

\* The inbound task takes a message.  A request makes it answer; an announcement of more blocks
\* and an answer to a request may make it ask for blocks.
TakeMessage ==
  /\ task = "idle" /\ inbound # << >>
  /\ Len(inbound) = 1 => swarm # "passing"
  /\ inbound' = Tail(inbound)
  /\ task' \in IF Head(inbound) = "request" THEN {"answering"} ELSE {"idle", "asking"}
  /\ UNCHANGED <<linkVars, knownVars, countVars, swarm, answers, outbound>>

AnswerRequest ==
  /\ task = "answering" /\ answers < AnswersSize
  /\ answers' = answers + 1
  /\ task' = "idle"
  /\ UNCHANGED <<linkVars, knownVars, countVars, swarm, inbound, outbound>>

AskPeer ==
  /\ task = "asking" /\ outbound < OutboundSize
  /\ outbound' = outbound + 1
  /\ task' = "idle"
  /\ UNCHANGED <<linkVars, knownVars, countVars, swarm, inbound, answers>>

\* Mutant of Abort: the tasks are left to end by themselves.
MutAbort == UNCHANGED <<task, inbound>>

\* abort drops the task with its end of the channel.
Abort == task' = "gone" /\ inbound' = << >>

\* main aborts the inbound task, then tells the swarm task, which hears it in its loop.
StopPeers ==
  /\ events < MaxEvents + 1 /\ swarm # "ended"
  /\ events' = MaxEvents + 1
  /\ Abort
  /\ UNCHANGED <<linkVars, knownVars, strikes, recent, grants, clock, swarm, answers, outbound>>

Stopping == events = MaxEvents + 1

SwarmStops ==
  /\ Stopping /\ swarm = "loop"
  /\ swarm' = "ended"
  /\ Save(known)
  /\ UNCHANGED <<linkVars, countVars, inbound, answers, outbound, task>>

\* A crash, or the next start after an end: load_known_peers reads the file.
RestartPeers ==
  /\ clock < MaxTicks
  /\ link' = [p \in Remote |-> "none"] /\ listed' = {}
  /\ known' = file /\ UNCHANGED file
  /\ strikes' = [p \in Remote |-> 0]
  /\ recent' = [p \in Remote |-> << >>] /\ grants' = [p \in Remote |-> << >>]
  /\ clock' = clock + 1 /\ events' = IF Stopping THEN 0 ELSE events
  /\ swarm' = "loop" /\ inbound' = << >> /\ answers' = 0 /\ outbound' = 0 /\ task' = "idle"

PeersNext ==
  \/ \E p \in Remote : \/ ConnectionEstablished(p) \/ ConnectionClosed(p)
                       \/ OutgoingConnectionError(p) \/ InvalidGossip(p)
                       \/ OtherMessage(p)
                       \/ \E withinBatch \in BOOLEAN : SyncRequest(p, withinBatch)
  \/ Ticks
  \/ Passed \/ PassFailed \/ SendAnswer \/ SendRequest
  \/ TakeMessage \/ AnswerRequest \/ AskPeer
  \/ StopPeers \/ SwarmStops \/ RestartPeers

PeersSpec == PeersInit /\ [][PeersNext]_peerVars

(***************************************************************************)
(* Properties.                                                             *)
(***************************************************************************)

\* No peer has more than MaxRate requests passed on within a second, however often it
\* connects anew: request_windows outlives the connection and slides with the clock.
RateKept ==
  \A p \in Remote : \A i \in DOMAIN grants[p] :
    i + MaxRate \in DOMAIN grants[p] => grants[p][i + MaxRate] - grants[p][i] >= Second

\* The two tasks can come to wait for each other, each on a full channel; a shutdown ends
\* that too, since the channel the swarm task waits on loses its other end.
StopEnds == Stopping /\ swarm # "ended" => ENABLED (Passed \/ PassFailed \/ SwarmStops)
=============================================================================
