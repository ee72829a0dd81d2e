------------------------------ MODULE BlockSync ------------------------------
(***************************************************************************)
(* Initial block download: the inbound task of main.rs, SyncState of       *)
(* network/sync.rs and the answers of the peers, which run the same code,  *)
(* composed with MiningControl, because the download pauses the worker.    *)
(*                                                                         *)
(* Blocks form a tree by Parent and all have the same work, so that the    *)
(* heavier branch is the longer one; what submit_external_block checks is  *)
(* the subject of NodeLedger, and here a block is valid or in Bad.         *)
(***************************************************************************)
EXTENDS MiningControl, Sequences, SequencesExt

CONSTANTS
  Block, Genesis, Parent,  \* the tree of blocks anyone made
  Bad,             \* blocks that fail validation
  Minable,         \* blocks the local worker may find
  Peer,
  PeerChain,       \* the canonical chain of each peer, block 0 left out
  Advertised,      \* the height in a peer's identify message: its height at start-up
  Gossip,          \* blocks that reach this node over gossipsub
  Sync,            \* the inbound task, a caller of stop_mining
  BatchSize,       \* IBD_BATCH_SIZE
  MaxRequests,     \* MAX_REQUESTS_PER_PEER_PER_SECOND
  MaxLost          \* bound: messages the network may lose

ASSUME SyncAssumption ==
  /\ Sync \in Caller \ ({Main} \cup Client)
  /\ Genesis \in Block \ Peer
  /\ Parent \in [Block \ {Genesis} -> Block]
  /\ Minable \cup Gossip \subseteq Block \ {Genesis}
  /\ PeerChain \in [Peer -> Seq(Block)]
  /\ Advertised \in [Peer -> Nat]
  /\ BatchSize \in Nat \ {0}
  /\ MaxRequests \in Nat
  /\ MaxLost \in Nat

VARIABLES
  stored,     \* blocks in the chain tree
  tip,        \* the canonical tip
  flagged,    \* blocks marked invalid
  target,     \* target_height while Syncing, 0 when Synced
  inbound,    \* the channel from the swarm task to the inbound task
  requests,   \* sync requests on their way to a peer
  window,     \* requests each peer counted within the last second
  told,       \* peers whose identify message arrived
  heard,      \* blocks that arrived over gossipsub
  lost,       \* messages lost so far
  pending,    \* the peer to ask once stop_mining returns
  batch,      \* the blocks that the inbound task is submitting
  causes      \* history: what kept a download from going on

syncVars == <<stored, tip, flagged, target, inbound, requests, window, told,
              heard, lost, pending, batch, causes>>
vars == <<miningVars, syncVars>>

Height[b \in Block] == IF b = Genesis THEN 0 ELSE Height[Parent[b]] + 1

Ancestors[b \in Block] == IF b = Genesis THEN {b} ELSE {b} \cup Ancestors[Parent[b]]

\* Every block descends from block 0, so the recursion is well founded.
ASSUME HeightAssumption ==
  /\ Height \in [Block -> Nat]
  /\ \A b \in Block : Height[b] = IF b = Genesis THEN 0 ELSE Height[Parent[b]] + 1

Syncing == target > 0

\* What is left of a batch of a peer, whether a block was accepted, and whether the next one
\* was found to have the tip as parent.
Batch(p, blocks, accepted, fits) == [from |-> p, blocks |-> blocks, accepted |-> accepted, fits |-> fits]
NoBatch == Batch(Genesis, <<>>, FALSE, FALSE)

SyncInit ==
  /\ MiningInit
  /\ stored = {Genesis}
  /\ tip = Genesis
  /\ flagged = {}
  /\ target = 0
  /\ inbound = <<>>
  /\ requests = {}
  /\ window = [p \in Peer |-> 0]
  /\ told = {}
  /\ heard = {}
  /\ lost = 0
  /\ pending = {}
  /\ batch = NoBatch
  /\ causes = {}

(***************************************************************************)
(* What submit_external_block does with one block.                         *)
(***************************************************************************)

\* Err: the block or its parent is flagged, the parent is unknown, or it fails.
Refused(b) == b \in flagged \/ Parent[b] \in flagged \/ Parent[b] \notin stored \/ b \in Bad

\* A block that fails its checks is flagged; so is one whose parent is unknown.
FlagsAfter(b) ==
  IF Refused(b) /\ Parent[b] \notin flagged THEN flagged \cup {b} ELSE flagged

Submit(b) ==
  /\ flagged' = FlagsAfter(b)
  /\ IF Refused(b)
     THEN UNCHANGED <<stored, tip>>
     ELSE /\ stored' = stored \cup {b}
          /\ tip' = IF Height[b] > Height[tip] THEN b ELSE tip

(***************************************************************************)
(* The network.                                                            *)
(***************************************************************************)

Status(p) == [kind |-> "status", from |-> p, body |-> <<>>]
Announced(b) == [kind |-> "block", from |-> b, body |-> <<b>>]
Answer(k, p, s) == [kind |-> k, from |-> p, body |-> s]

GetHeaders(p, start) == [kind |-> "headers", to |-> p, start |-> start, hashes |-> <<>>]
GetBlocks(p, hashes) == [kind |-> "blocks", to |-> p, start |-> 0, hashes |-> hashes]

\* The swarm task passes on a peer's identify message.
Identify(p) ==
  /\ p \notin told
  /\ told' = told \cup {p}
  /\ inbound' = Append(inbound, Status(p))
  /\ UNCHANGED <<miningVars, stored, tip, flagged, target, requests, window,
                 heard, lost, pending, batch, causes>>

\* A well-formed block arrives over gossipsub, which delivers a message once.
HearBlock(b) ==
  /\ b \in Gossip \ heard
  /\ heard' = heard \cup {b}
  /\ inbound' = Append(inbound, Announced(b))
  /\ UNCHANGED <<miningVars, stored, tip, flagged, target, requests, window,
                 told, lost, pending, batch, causes>>

\* get_canonical_hashes, skip and take; get_block of each hash that is known.
Served(r) ==
  IF r.kind = "headers"
  THEN SubSeq(PeerChain[r.to], r.start,
              IF r.start + BatchSize - 1 < Len(PeerChain[r.to])
              THEN r.start + BatchSize - 1 ELSE Len(PeerChain[r.to]))
  ELSE r.hashes

\* A peer within its rate answers a request from its canonical chain.
Serve(r) ==
  /\ window[r.to] < MaxRequests
  /\ window' = [window EXCEPT ![r.to] = @ + 1]
  /\ requests' = requests \ {r}
  /\ inbound' = Append(inbound, Answer(r.kind, r.to, Served(r)))
  /\ causes' = IF Served(r) = <<>> /\ Len(PeerChain[r.to]) < target
               THEN causes \cup {"short"} ELSE causes
  /\ UNCHANGED <<miningVars, stored, tip, flagged, target, told, heard, lost,
                 pending, batch>>

\* Over the rate the peer answers with an empty list.
ServeNothing(r) ==
  /\ window[r.to] >= MaxRequests
  /\ requests' = requests \ {r}
  /\ inbound' = Append(inbound, Answer(r.kind, r.to, <<>>))
  /\ causes' = causes \cup {"rate"}
  /\ UNCHANGED <<miningVars, stored, tip, flagged, target, window, told, heard,
                 lost, pending, batch>>

\* A request of the window is older than a second.
WindowSlides(p) ==
  /\ window[p] > 0
  /\ window' = [window EXCEPT ![p] = @ - 1]
  /\ UNCHANGED <<miningVars, stored, tip, flagged, target, inbound, requests,
                 told, heard, lost, pending, batch, causes>>

\* The connection drops or the answer times out: the event is not handled.
Lose(r) ==
  /\ lost < MaxLost
  /\ lost' = lost + 1
  /\ requests' = requests \ {r}
  /\ causes' = causes \cup {"lost"}
  /\ UNCHANGED <<miningVars, stored, tip, flagged, target, inbound, window,
                 told, heard, pending, batch>>

(***************************************************************************)
(* The inbound task.  It handles one message at a time; while it waits for *)
(* stop_mining it handles none.                                            *)
(***************************************************************************)

Receives(kind) ==
  /\ caller[Sync].at = "idle" /\ batch = NoBatch
  /\ inbound # <<>>
  /\ Head(inbound).kind = kind
  /\ inbound' = Tail(inbound)

\* Mutant of ObservePeer: a later peer lowers the target.
MutTargetReplaced(h) ==
  target' = IF h > Height[tip] THEN h ELSE target

\* SyncState::observe_peer.
ObservePeer(h) ==
  target' = IF h > Height[tip] /\ h > target THEN h ELSE target

\* A peer is ahead and no download runs: mining is stopped, then headers are asked.
StartDownload ==
  /\ Receives("status")
  /\ LET p == Head(inbound).from IN
       /\ ~ Syncing
       /\ Advertised[p] > Height[tip]
       /\ ObservePeer(Advertised[p])
       /\ pending' = {<<p, Height[tip] + 1>>}
  /\ RaiseFlag(Sync)
  /\ UNCHANGED <<phase, stored, tip, flagged, requests, window, told, heard,
                 lost, batch, causes>>

\* Any other announcement may raise the target; nothing is asked of that peer.
NoteStatus ==
  /\ Receives("status")
  /\ Syncing \/ Advertised[Head(inbound).from] <= Height[tip]
  /\ ObservePeer(Advertised[Head(inbound).from])
  /\ UNCHANGED <<miningVars, stored, tip, flagged, requests, window, told,
                 heard, lost, pending, batch, causes>>

\* stop_mining has returned: GetHeaders from the height read before it.
AskHeaders ==
  /\ Returned(Sync)
  /\ requests' = requests \cup {GetHeaders(q[1], q[2]) : q \in pending}
  /\ pending' = {}
  /\ UNCHANGED <<phase, stored, tip, flagged, target, inbound, window, told,
                 heard, lost, batch, causes>>

\* A gossiped block is submitted, or ignored during a download.
OnGossip ==
  /\ Receives("block")
  /\ IF Syncing THEN UNCHANGED <<stored, tip, flagged>>
                ELSE Submit(Head(inbound).from)
  /\ UNCHANGED <<miningVars, target, requests, window, told, heard, lost,
                 pending, batch, causes>>

\* Hashes that are not empty are turned into a request for the blocks.
OnHeaders ==
  /\ Receives("headers")
  /\ LET m == Head(inbound) IN
       requests' = IF m.body # <<>> /\ Syncing
                   THEN requests \cup {GetBlocks(m.from, m.body)} ELSE requests
  /\ UNCHANGED <<miningVars, stored, tip, flagged, target, window, told, heard,
                 lost, pending, batch, causes>>

\* Mutant of Reached: the target itself is not enough.
MutReachedStrict(h) == Syncing /\ h > target

\* SyncState::advance ends the download.
Reached(h) == Syncing /\ h >= target

\* A batch of blocks arrives.
OnBlocks ==
  /\ Receives("blocks")
  /\ batch' = Batch(Head(inbound).from, Head(inbound).body, FALSE, FALSE)
  /\ UNCHANGED <<miningVars, stored, tip, flagged, target, requests, window, told, heard, lost,
                 pending, causes>>

\* The loop breaks: the blocks that are left are dropped.
BreakOff ==
  /\ batch' = [batch EXCEPT !.blocks = <<>>, !.fits = FALSE]
  /\ causes' = causes \cup {"batch"}

\* The next block must have the canonical tip of this moment as parent.
CheckBlock ==
  /\ batch.blocks # <<>> /\ ~ batch.fits
  /\ IF Parent[Head(batch.blocks)] = tip THEN batch' = [batch EXCEPT !.fits = TRUE] /\ UNCHANGED causes
                                         ELSE BreakOff
  /\ UNCHANGED <<miningVars, stored, tip, flagged, target, inbound, requests, window, told, heard, lost,
                 pending>>

\* It is submitted; the tip may have moved since.
SubmitBlock ==
  /\ batch.fits
  /\ Submit(Head(batch.blocks))
  /\ IF Refused(Head(batch.blocks)) THEN BreakOff
     ELSE batch' = Batch(batch.from, Tail(batch.blocks), TRUE, FALSE) /\ UNCHANGED causes
  /\ UNCHANGED <<miningVars, target, inbound, requests, window, told, heard, lost, pending>>

\* The download ends, or goes on if a block was accepted, or is left as it is.
EndBatch ==
  /\ batch # NoBatch /\ batch.blocks = <<>>
  /\ batch' = NoBatch
  /\ IF Reached(Height[tip])
     THEN /\ target' = 0
          /\ UNCHANGED requests
          /\ IF MiningEnabled
             THEN StartMining /\ UNCHANGED <<caller, phase>>
             ELSE UNCHANGED miningVars
     ELSE /\ requests' = IF batch.accepted
                         THEN requests \cup {GetHeaders(batch.from, Height[tip] + 1)} ELSE requests
          /\ UNCHANGED <<miningVars, target>>
  /\ UNCHANGED <<stored, tip, flagged, inbound, window, told, heard, lost, pending, causes>>

(***************************************************************************)
(* Mining in this node.                                                    *)
(***************************************************************************)

\* The worker's block becomes the tip.
MineBlock(w) ==
  /\ Commit(w)
  /\ \E b \in Minable \ stored :
       /\ Parent[b] = tip
       /\ stored' = stored \cup {b}
       /\ tip' = b
  /\ UNCHANGED <<flagged, target, inbound, requests, window, told, heard, lost,
                 pending, batch, causes>>

MiningOnly(A) == A /\ UNCHANGED syncVars

SyncNext ==
  \/ \E p \in Peer : Identify(p) \/ WindowSlides(p)
  \/ \E b \in Gossip : HearBlock(b)
  \/ \E r \in requests : Serve(r) \/ ServeNothing(r) \/ Lose(r)
  \/ StartDownload
  \/ NoteStatus
  \/ AskHeaders
  \/ OnGossip
  \/ OnHeaders
  \/ OnBlocks \/ CheckBlock \/ SubmitBlock \/ EndBatch
  \/ \E w \in Worker : MineBlock(w) \/ MiningOnly(WorkerStep(w))
  \/ \E c \in Caller : MiningOnly(StopStep(c))
  \/ \E c \in Client : MiningOnly(SetMining(c))
  \/ MiningOnly(ShutdownBegins)
  \/ MiningOnly(ShutdownEnds)

\* The tasks and threads of the process are scheduled, a worker leaves run_pow_search
\* after a bounded number of nonces, and a peer answers a request that arrives.
Fairness ==
  /\ \A w \in Worker : WF_vars(MiningOnly(WorkerStep(w)))
  /\ \A c \in Caller : WF_vars(MiningOnly(StopStep(c)))
  /\ WF_vars(\/ StartDownload \/ NoteStatus \/ AskHeaders \/ OnGossip \/ OnHeaders
             \/ OnBlocks \/ CheckBlock \/ SubmitBlock \/ EndBatch)
  /\ WF_vars(\E r \in requests : Serve(r) \/ ServeNothing(r))
  /\ WF_vars(MiningOnly(ShutdownEnds))

SyncSpec == SyncInit /\ [][SyncNext]_vars /\ Fairness

(***************************************************************************)
(* Properties.                                                             *)
(***************************************************************************)

\* A download that starts ends: SyncState leaves Syncing (sync.rs:41), unless a
\* request was lost or refused for its rate, a batch was broken off, the peer asked
\* is behind the peer that set the target, a start of mining by another thread
\* holds the inbound task in stop_mining, or the node is told to stop.  No other
\* order of events leaves the node behind for good.
DownloadEnds ==
  Syncing ~> \/ ~ Syncing
             \/ causes # {}
             \/ Sync \in overtaken
             \/ phase # "running"

\* A download ends at or above the height of every peer whose status was handled
\* since it began: the target only rises (sync.rs:31).
DownloadReachesPeers ==
  [][Syncing /\ ~ Syncing' =>
       \A p \in told : Status(p) \in Range(inbound) \/ Advertised[p] <= Height[tip']]_vars

\* README.md:106 and docs/network/p2p-architecture.md:44-49: a node that is behind
\* downloads what it misses until it has reached the heaviest chain.
DownloadFinishes == Syncing ~> ~ Syncing
=============================================================================
