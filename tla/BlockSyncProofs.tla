--------------------------- MODULE BlockSyncProofs ---------------------------
(***************************************************************************)
(* Proofs about MiningControl and BlockSync, for every number of callers,  *)
(* workers and peers, every tree of blocks, and whatever the network loses *)
(* or refuses.                                                             *)
(***************************************************************************)
EXTENDS BlockSync, FoldTheorems

\* The callers of stop_mining, and what they wait for: only a caller in join
\* holds the handle of a worker.
MiningTypeOK ==
  /\ handle \in Worker \cup {NoWorker}
  /\ worker \in [Worker -> {"unborn", "top", "search", "solved", "commit", "ended"}]
  /\ caller \in [Caller -> [at : {"idle", "take", "join", "back"}, joins : Worker \cup {NoWorker}]]

JoinsOnlyInJoin == \A c \in Caller : caller[c].at # "join" => caller[c].joins = NoWorker

MiningIInv == MiningTypeOK /\ JoinsOnlyInJoin /\ NoWorkerLost

\* What may be on the wires.
Message ==
  {m \in [kind : {"status", "block", "headers", "blocks"}, from : Peer \cup Block, body : Seq(Block)] :
     /\ m.kind = "block" => m.from \in Block
     /\ m.kind # "block" => m.from \in Peer}

Request ==
  [kind : {"headers", "blocks"}, to : Peer, start : Nat, hashes : Seq(Block)]

\* What the inbound task may be submitting.
Batches == [from : Peer \cup {Genesis}, blocks : Seq(Block), accepted : BOOLEAN, fits : BOOLEAN]

SyncTypeOK ==
  /\ Genesis \in stored
  /\ tip \in Block
  /\ target \in Nat
  /\ inbound \in Seq(Message)
  /\ requests \subseteq Request
  /\ \A r \in requests : r.kind = "headers" => r.start > 0
  /\ pending \subseteq Peer \X (Nat \ {0})
  /\ told \subseteq Peer
  /\ batch \in Batches
  /\ batch # NoBatch => batch.from \in Peer
  /\ batch.fits => batch.blocks # << >>

\* Of a peer that announced itself, the message is still to be handled, or the
\* target covers its height, or the node has reached it.
PeersHeard ==
  \A p \in told :
    \/ Status(p) \in Range(inbound)
    \/ Advertised[p] <= target
    \/ Advertised[p] <= Height[tip]

SyncIInv == SyncTypeOK /\ PeersHeard

-----------------------------------------------------------------------------
(***************************************************************************)
(* The worker threads.                                                     *)
(***************************************************************************)

\* The worker that start_mining spawns is one that never ran.
LEMMA NextWorkerUnborn ==
  ASSUME Unborn # {}
  PROVE  NextWorker \in Unborn
<1>1. Unborn \subseteq Nat
  BY WorkerAssumption DEF Unborn
<1> QED BY <1>1, LeastNat DEF NextWorker

\* start_mining loses no worker: it only stores a handle where there was none.
LEMMA StartKeeps ==
  ASSUME MiningIInv, StartMining, UNCHANGED caller
  PROVE  MiningIInv'
<1>1. CASE handle = NoWorker
  <2>1. /\ Unborn # {} /\ handle' = NextWorker /\ worker' = [worker EXCEPT ![NextWorker] = "top"]
    BY <1>1 DEF StartMining, Spawn
  <2>2. NextWorker \in Worker
    BY <2>1, NextWorkerUnborn DEF Unborn
  <2>3. MiningTypeOK'
    BY <2>1, <2>2 DEF MiningIInv, MiningTypeOK
  <2>4. NoWorkerLost'
    <3> SUFFICES ASSUME NEW w \in Worker, Live(w)'
                 PROVE  w = handle' \/ \E c \in Caller : caller'[c].joins = w
      BY DEF NoWorkerLost
    <3>1. CASE w = NextWorker
      BY <2>1, <3>1
    <3>2. CASE w # NextWorker
      <4>1. Live(w)
        BY <2>1, <3>2 DEF Live, MiningIInv, MiningTypeOK
      <4> QED BY <1>1, <4>1, WorkerAssumption DEF MiningIInv, NoWorkerLost
    <3> QED BY <3>1, <3>2
  <2> QED BY <2>3, <2>4 DEF MiningIInv, JoinsOnlyInJoin
<1>2. CASE handle # NoWorker
  <2>1. UNCHANGED <<handle, worker>>
    BY <1>2 DEF StartMining
  <2> QED BY <2>1 DEF MiningIInv, MiningTypeOK, JoinsOnlyInJoin, NoWorkerLost, Live
<1> QED BY <1>1, <1>2

\* stop_mining raises the stop flag.
LEMMA RaiseFlagKeeps ==
  ASSUME MiningIInv, NEW c \in Caller, RaiseFlag(c)
  PROVE  MiningIInv'
<1>1. /\ caller[c].at = "idle" /\ caller' = [caller EXCEPT ![c].at = "take"]
      /\ UNCHANGED <<handle, worker>>
  BY DEF RaiseFlag
<1>2. MiningTypeOK'
  BY <1>1 DEF MiningIInv, MiningTypeOK
<1>3. \A d \in Caller : caller'[d].joins = caller[d].joins /\ (caller'[d].at = "join" <=> caller[d].at = "join")
  BY <1>1 DEF MiningIInv, MiningTypeOK
<1> QED BY <1>1, <1>2, <1>3 DEF MiningIInv, JoinsOnlyInJoin, NoWorkerLost, Live

\* A caller that is not in join, or whose thread has ended, gives nothing up.
LEMMA ReleaseKeeps ==
  ASSUME MiningIInv, NEW c \in Caller,
         caller[c].joins = NoWorker \/ worker[caller[c].joins] = "ended",
         NEW at \in {"idle", "back"},
         caller' = [caller EXCEPT ![c] = [at |-> at, joins |-> NoWorker]],
         UNCHANGED <<handle, worker>>
  PROVE  MiningIInv'
<1>1. MiningTypeOK'
  BY DEF MiningIInv, MiningTypeOK
<1>2. caller'[c] = [at |-> at, joins |-> NoWorker] /\ \A d \in Caller : d # c => caller'[d] = caller[d]
  BY DEF MiningIInv, MiningTypeOK
<1>3. JoinsOnlyInJoin'
  BY <1>2 DEF MiningIInv, JoinsOnlyInJoin
<1>4. NoWorkerLost'
  BY <1>2, WorkerAssumption DEF MiningIInv, NoWorkerLost, Live
<1> QED BY <1>1, <1>3, <1>4 DEF MiningIInv

\* stop_mining takes the handle, and joins the thread when there was one.
LEMMA StopKeeps ==
  ASSUME MiningIInv, NEW c \in Caller, StopStep(c)
  PROVE  MiningIInv'
<1>1. CASE TakeHandle(c) /\ handle = NoWorker
  <2>1. /\ caller[c].joins = NoWorker
        /\ \E at \in {"idle", "back"} : caller' = [caller EXCEPT ![c] = [at |-> at, joins |-> NoWorker]]
        /\ UNCHANGED <<handle, worker>>
    BY <1>1 DEF TakeHandle, Return, Idle, MiningIInv, JoinsOnlyInJoin
  <2> QED BY <2>1, ReleaseKeeps
<1>2. CASE TakeHandle(c) /\ handle # NoWorker
  <2>1. /\ caller[c].at = "take" /\ handle' = NoWorker /\ UNCHANGED worker
        /\ caller' = [caller EXCEPT ![c] = [at |-> "join", joins |-> handle]]
    BY <1>2 DEF TakeHandle
  <2>2. MiningTypeOK'
    BY <2>1 DEF MiningIInv, MiningTypeOK
  <2>3. /\ caller'[c] = [at |-> "join", joins |-> handle] /\ caller[c].joins = NoWorker
        /\ \A d \in Caller : d # c => caller'[d] = caller[d]
    BY <2>1 DEF MiningIInv, MiningTypeOK, JoinsOnlyInJoin
  <2>4. JoinsOnlyInJoin'
    BY <2>3 DEF MiningIInv, JoinsOnlyInJoin
  <2>5. NoWorkerLost'
    BY <2>1, <2>3, WorkerAssumption DEF MiningIInv, NoWorkerLost, Live
  <2> QED BY <2>2, <2>4, <2>5 DEF MiningIInv
<1>3. CASE JoinWorker(c)
  <2>1. worker[caller[c].joins] = "ended" /\ Return(c) /\ UNCHANGED <<handle, worker>>
    BY <1>3 DEF JoinWorker
  <2>2. \E at \in {"idle", "back"} : caller' = [caller EXCEPT ![c] = [at |-> at, joins |-> NoWorker]]
    <3> DEFINE at == IF c \in Client THEN "idle" ELSE "back"
    <3>1. [Idle EXCEPT !.at = at] = [at |-> at, joins |-> NoWorker]
      BY DEF Idle
    <3>2. caller' = [caller EXCEPT ![c] = [Idle EXCEPT !.at = at]]
      BY <2>1 DEF Return
    <3>3. caller' = [caller EXCEPT ![c] = [at |-> at, joins |-> NoWorker]]
      BY <3>1, <3>2
    <3>4. at \in {"idle", "back"}
      OBVIOUS
    <3> HIDE DEF at
    <3> QED BY <3>3, <3>4
  <2> QED BY <2>1, <2>2, ReleaseKeeps
<1> QED BY <1>1, <1>2, <1>3 DEF StopStep

\* stop_mining returns to its caller.
LEMMA ReturnedKeeps ==
  ASSUME MiningIInv, NEW c \in Caller, Returned(c)
  PROVE  MiningIInv'
<1>1. /\ caller[c].joins = NoWorker
      /\ caller' = [caller EXCEPT ![c] = [at |-> "idle", joins |-> NoWorker]]
      /\ UNCHANGED <<handle, worker>>
  BY DEF Returned, Idle, MiningIInv, JoinsOnlyInJoin
<1> QED BY <1>1, ReleaseKeeps

\* A running worker stays reachable, and an ended one need not be.
LEMMA WorkerKeeps ==
  ASSUME MiningIInv, NEW w \in Worker, WorkerStep(w) \/ Commit(w)
  PROVE  MiningIInv'
<1>1. PICK at \in {"top", "search", "solved", "commit", "ended"} :
        worker' = [worker EXCEPT ![w] = at] /\ Live(w) /\ UNCHANGED <<handle, caller>>
  BY DEF WorkerStep, LoopTop, Search, CheckSolved, DropStale, BreakOnStorage, Commit, Go, Live
<1>2. MiningTypeOK'
  BY <1>1 DEF MiningIInv, MiningTypeOK
<1>3. \A v \in Worker : Live(v)' => Live(v)
  BY <1>1 DEF Live, MiningIInv, MiningTypeOK
<1> QED BY <1>1, <1>2, <1>3 DEF MiningIInv, JoinsOnlyInJoin, NoWorkerLost

\* Steps that leave the handle, the threads and the callers alone.
LEMMA MiningStill ==
  ASSUME MiningIInv, UNCHANGED <<handle, worker, caller>>
  PROVE  MiningIInv'
BY DEF MiningIInv, MiningTypeOK, JoinsOnlyInJoin, NoWorkerLost, Live

\* No worker runs when the node starts.
LEMMA MiningInitial == MiningInit => MiningIInv
<1> SUFFICES ASSUME MiningInit PROVE MiningIInv
  OBVIOUS
<1>1. MiningTypeOK
  BY WorkerAssumption DEF MiningInit, MiningTypeOK, Idle
<1>2. JoinsOnlyInJoin
  BY DEF MiningInit, JoinsOnlyInJoin, Idle
<1>3. NoWorkerLost
  BY WorkerAssumption DEF MiningInit, NoWorkerLost, Live
<1> QED BY <1>1, <1>2, <1>3 DEF MiningIInv

\* Every step of the node keeps the invariant of the workers.
LEMMA MiningStep == MiningIInv /\ [SyncNext]_vars => MiningIInv'
<1> SUFFICES ASSUME MiningIInv, [SyncNext]_vars PROVE MiningIInv'
  OBVIOUS
<1>m. ASSUME UNCHANGED miningVars PROVE MiningIInv'
  BY <1>m, MiningStill DEF miningVars
<1>1. CASE \/ \E p \in Peer : Identify(p) \/ WindowSlides(p)
           \/ \E b \in Gossip : HearBlock(b)
           \/ \E r \in requests : Serve(r) \/ ServeNothing(r) \/ Lose(r)
           \/ NoteStatus \/ OnGossip \/ OnHeaders \/ OnBlocks \/ CheckBlock \/ SubmitBlock
  BY <1>1, <1>m DEF Identify, WindowSlides, HearBlock, Serve, ServeNothing, Lose, NoteStatus, OnGossip,
                    OnHeaders, OnBlocks, CheckBlock, SubmitBlock
<1>2. CASE StartDownload
  BY <1>2, RaiseFlagKeeps, SyncAssumption DEF StartDownload
<1>3. CASE AskHeaders
  BY <1>3, ReturnedKeeps, SyncAssumption DEF AskHeaders
<1>4. CASE EndBatch
  <2>1. (StartMining /\ UNCHANGED <<caller, phase>>) \/ UNCHANGED miningVars
    BY <1>4 DEF EndBatch
  <2> QED BY <2>1, <1>m, StartKeeps
<1>5. CASE \E w \in Worker : MineBlock(w) \/ MiningOnly(WorkerStep(w))
  BY <1>5, WorkerKeeps DEF MineBlock, MiningOnly
<1>6. CASE \E c \in Caller : MiningOnly(StopStep(c))
  BY <1>6, StopKeeps DEF MiningOnly
<1>7. CASE \E c \in Client : MiningOnly(SetMining(c))
  BY <1>7, StartKeeps, RaiseFlagKeeps, CallerAssumption DEF MiningOnly, SetMining
<1>8. CASE MiningOnly(ShutdownBegins) \/ MiningOnly(ShutdownEnds)
  BY <1>8, RaiseFlagKeeps, ReturnedKeeps, CallerAssumption DEF MiningOnly, ShutdownBegins, ShutdownEnds
<1>9. CASE UNCHANGED vars
  BY <1>9, <1>m DEF vars
<1> QED BY <1>1, <1>2, <1>3, <1>4, <1>5, <1>6, <1>7, <1>8, <1>9 DEF SyncNext

\* The types of the mining control, who holds a handle, and no lost worker, over
\* starts, stops and downloads that interleave (node.rs, start_mining, stop_mining).
THEOREM MiningInvariant == SyncSpec => []MiningIInv
<1>1. SyncInit => MiningIInv
  BY MiningInitial DEF SyncInit
<1> QED BY <1>1, MiningStep, PTL DEF SyncSpec

\* No worker thread is ever out of reach of mining_handle and of the callers in
\* join, although stop_mining takes the handle and joins the thread in two steps
\* and start_mining, the download and the shutdown may run between them.
THEOREM WorkersReachable == SyncSpec => []NoWorkerLost
BY MiningInvariant, PTL DEF MiningIInv

-----------------------------------------------------------------------------
(***************************************************************************)
(* The download.                                                           *)
(***************************************************************************)

\* The channel to the inbound task, when the swarm task adds a message to it and
\* when the inbound task takes one out.
LEMMA MessageSent ==
  ASSUME NEW q \in Seq(Message), NEW m \in Message
  PROVE  Append(q, m) \in Seq(Message) /\ Range(Append(q, m)) = Range(q) \cup {m}
<1>1. /\ Append(q, m) \in Seq(Message) /\ Len(Append(q, m)) = Len(q) + 1 /\ Len(q) \in Nat
      /\ DOMAIN q = 1 .. Len(q) /\ DOMAIN Append(q, m) = 1 .. Len(q) + 1
      /\ \A i \in 1 .. Len(q) : Append(q, m)[i] = q[i]
      /\ Append(q, m)[Len(q) + 1] = m
  BY AppendProperties, LenProperties
<1> HIDE DEF Message
<1>2. Range(Append(q, m)) \subseteq Range(q) \cup {m}
  BY <1>1 DEF Range
<1>3. Range(q) \cup {m} \subseteq Range(Append(q, m))
  BY <1>1 DEF Range
<1> QED BY <1>1, <1>2, <1>3

\* The message that the event loop takes is the first; the others stay in order.
LEMMA MessageTaken ==
  ASSUME NEW q \in Seq(Message), q # << >>
  PROVE  /\ Head(q) \in Message
         /\ Tail(q) \in Seq(Message)
         /\ Range(q) = {Head(q)} \cup Range(Tail(q))
<1>1. /\ Head(q) \in Message /\ Tail(q) \in Seq(Message) /\ Len(Tail(q)) = Len(q) - 1
      /\ Len(q) \in Nat \ {0} /\ DOMAIN q = 1 .. Len(q) /\ DOMAIN Tail(q) = 1 .. Len(q) - 1
      /\ \A i \in 1 .. Len(q) - 1 : Tail(q)[i] = q[i + 1]
      /\ Head(q) = q[1]
  BY HeadTailProperties, LenProperties, EmptySeq
<1>2. \A i \in 2 .. Len(q) : q[i] = Tail(q)[i - 1]
  BY <1>1
<1>3. Range(q) \subseteq {Head(q)} \cup Range(Tail(q))
  <2> SUFFICES ASSUME NEW i \in 1 .. Len(q) PROVE q[i] \in {Head(q)} \cup Range(Tail(q))
    BY <1>1 DEF Range
  <2>1. CASE i = 1
    BY <1>1, <2>1
  <2>2. CASE i # 1
    <3>1. q[i] = Tail(q)[i - 1] /\ i - 1 \in DOMAIN Tail(q)
      BY <1>1, <1>2, <2>2
    <3> QED BY <3>1 DEF Range
  <2> QED BY <2>1, <2>2
<1>4. {Head(q)} \cup Range(Tail(q)) \subseteq Range(q)
  BY <1>1 DEF Range
<1> QED BY <1>1, <1>3, <1>4

\* Nothing is downloaded when the node starts.
LEMMA SyncInitial == SyncInit => SyncIInv
<1> SUFFICES ASSUME SyncInit PROVE SyncIInv
  OBVIOUS
<1>1. NoBatch \in Batches /\ ~ NoBatch.fits
  BY EmptySeq DEF NoBatch, Batch, Batches
<1> QED BY <1>1, SyncAssumption DEF SyncInit, SyncIInv, SyncTypeOK, PeersHeard

\* The height of the tip never falls, and the target rises or is reached.
LEMMA HeardKept ==
  ASSUME SyncIInv, tip' \in Block, target' \in Nat,
         Height[tip'] >= Height[tip],
         target' >= target \/ Height[tip'] >= target,
         \A p \in told' : \/ p \in told /\ Status(p) \notin Range(inbound)
                          \/ Status(p) \in Range(inbound')
                          \/ Advertised[p] <= target'
                          \/ Advertised[p] <= Height[tip']
  PROVE  PeersHeard'
<1> SUFFICES ASSUME NEW p \in told', p \in told /\ Status(p) \notin Range(inbound), p \in Peer
             PROVE  Advertised[p] <= target' \/ Advertised[p] <= Height[tip']
  BY DEF PeersHeard, Status, SyncIInv, SyncTypeOK
<1>1. Advertised[p] <= target \/ Advertised[p] <= Height[tip]
  BY DEF SyncIInv, PeersHeard
<1>2. Advertised[p] \in Nat /\ target \in Nat /\ Height[tip] \in Nat /\ Height[tip'] \in Nat
  BY SyncAssumption, HeightAssumption DEF SyncIInv, SyncTypeOK
<1> QED BY <1>1, <1>2

\* submit_external_block leaves a tip of the tree that is at least as high.
LEMMA SubmitRaises ==
  ASSUME SyncTypeOK, NEW b \in Block, Submit(b)
  PROVE  Genesis \in stored' /\ tip' \in Block /\ Height[tip'] >= Height[tip]
<1>1. tip' = tip \/ (tip' = b /\ Height[b] > Height[tip])
  BY DEF Submit
<1>2. Genesis \in stored'
  BY DEF Submit, SyncTypeOK
<1>3. Height[tip] \in Nat /\ Height[b] \in Nat
  BY HeightAssumption DEF SyncTypeOK
<1> QED BY <1>1, <1>2, <1>3 DEF SyncTypeOK

\* Every step keeps the invariant of the download.
LEMMA SyncStep == SyncIInv /\ [SyncNext]_vars => SyncIInv'
<1> SUFFICES ASSUME SyncIInv, [SyncNext]_vars PROVE SyncIInv'
  OBVIOUS
<1>t. /\ Height[tip] \in Nat /\ target \in Nat /\ inbound \in Seq(Message)
      /\ tip \in Block /\ \A p \in Peer : Advertised[p] \in Nat
  BY SyncAssumption, HeightAssumption DEF SyncIInv, SyncTypeOK
<1>1. ASSUME NEW p \in Peer, Identify(p) PROVE SyncIInv'
  <2>1. told' = told \cup {p} /\ inbound' = Append(inbound, Status(p)) /\ UNCHANGED <<stored, tip, target, requests, pending, batch>>
    BY <1>1 DEF Identify
  <2>2. Status(p) \in Message
    <3>1. << >> \in Seq(Block)
      BY EmptySeq
    <3> QED BY <3>1 DEF Status, Message
  <2>3. inbound' \in Seq(Message) /\ Range(inbound') = Range(inbound) \cup {Status(p)}
    BY <1>t, <2>1, <2>2, MessageSent
  <2>4. SyncTypeOK'
    BY <2>1, <2>3 DEF SyncIInv, SyncTypeOK
  <2>5. PeersHeard'
    BY <1>t, <2>1, <2>3, HeardKept
  <2> QED BY <2>4, <2>5 DEF SyncIInv
<1>2. ASSUME NEW b \in Gossip, HearBlock(b) PROVE SyncIInv'
  <2>1. inbound' = Append(inbound, Announced(b)) /\ UNCHANGED <<stored, tip, target, requests, told, pending, batch>>
    BY <1>2 DEF HearBlock
  <2>2. Announced(b) \in Message
    <3>1. b \in Block /\ <<b>> \in Seq(Block)
      BY SyncAssumption
    <3> QED BY <3>1 DEF Announced, Message
  <2>3. inbound' \in Seq(Message) /\ Range(inbound') = Range(inbound) \cup {Announced(b)}
    BY <1>t, <2>1, <2>2, MessageSent
  <2>4. SyncTypeOK'
    BY <2>1, <2>3 DEF SyncIInv, SyncTypeOK
  <2>5. PeersHeard'
    BY <1>t, <2>1, <2>3, HeardKept
  <2> QED BY <2>4, <2>5 DEF SyncIInv
<1>3. ASSUME NEW r \in requests, Serve(r) \/ ServeNothing(r) PROVE SyncIInv'
  <2>0. r \in Request /\ (r.kind = "headers" => r.start > 0)
    BY DEF SyncIInv, SyncTypeOK
  <2>1. PICK s \in {Served(r), << >>} :
          /\ inbound' = Append(inbound, Answer(r.kind, r.to, s)) /\ requests' = requests \ {r}
          /\ UNCHANGED <<stored, tip, target, told, pending, batch>>
    BY <1>3 DEF Serve, ServeNothing
  <2>2. s \in Seq(Block)
    <3>1. << >> \in Seq(Block)
      BY EmptySeq
    <3>2. CASE r.kind = "headers"
      <4> DEFINE c == PeerChain[r.to]
                 e == IF r.start + BatchSize - 1 < Len(c) THEN r.start + BatchSize - 1 ELSE Len(c)
      <4>1. c \in Seq(Block) /\ Len(c) \in Nat /\ r.start \in Nat /\ r.start > 0 /\ BatchSize \in Nat
        BY <2>0, <3>2, SyncAssumption, LenProperties DEF Request
      <4>2. e \in Int /\ e <= Len(c)
        BY <4>1
      <4>3. \A i \in r.start .. e : c[i] \in Block
        BY <4>1, <4>2, ElementOfSeq
      <4>4. SubSeq(c, r.start, e) \in Seq(Block)
        BY <4>1, <4>2, <4>3, SubSeqProperties
      <4> QED BY <2>1, <3>1, <3>2, <4>4 DEF Served
    <3>3. CASE r.kind # "headers"
      BY <2>0, <2>1, <3>1, <3>3 DEF Served, Request
    <3> QED BY <3>2, <3>3
  <2>3. Answer(r.kind, r.to, s) \in Message
    BY <2>0, <2>2 DEF Answer, Message, Request
  <2>4. inbound' \in Seq(Message) /\ Range(inbound') = Range(inbound) \cup {Answer(r.kind, r.to, s)}
    BY <1>t, <2>1, <2>3, MessageSent
  <2>5. SyncTypeOK'
    BY <2>1, <2>4 DEF SyncIInv, SyncTypeOK
  <2>6. PeersHeard'
    BY <1>t, <2>1, <2>4, HeardKept
  <2> QED BY <2>5, <2>6 DEF SyncIInv
<1>4. CASE (\E p \in Peer : WindowSlides(p)) \/ (\E r \in requests : Lose(r))
  <2>1. requests' \subseteq requests /\ UNCHANGED <<stored, tip, target, inbound, told, pending, batch>>
    BY <1>4 DEF WindowSlides, Lose
  <2>2. SyncTypeOK'
    BY <2>1 DEF SyncIInv, SyncTypeOK
  <2> QED BY <2>1, <2>2 DEF SyncIInv, PeersHeard
<1>r. ASSUME NEW k, Receives(k)
      PROVE  /\ Head(inbound) \in Message /\ Head(inbound).kind = k
             /\ inbound' \in Seq(Message) /\ Range(inbound) = {Head(inbound)} \cup Range(inbound')
  <2>1. inbound # << >> /\ Head(inbound).kind = k /\ inbound' = Tail(inbound)
    BY <1>r DEF Receives
  <2> QED BY <1>t, <2>1, MessageTaken
<1>o. ASSUME NEW k, Receives(k), k # "status"
      PROVE  \A p \in told : Status(p) \in Range(inbound) => Status(p) \in Range(inbound')
  <2>1. \A p \in told : Status(p) # Head(inbound)
    BY <1>o, <1>r DEF Status
  <2> QED BY <1>o, <1>r, <2>1
<1>s. ASSUME Receives("status"), ObservePeer(Advertised[Head(inbound).from]), UNCHANGED <<tip, told>>
      PROVE  Head(inbound).from \in Peer /\ target' \in Nat /\ PeersHeard'
  <2> DEFINE q == Head(inbound).from
  <2>1. q \in Peer /\ Range(inbound) = {Head(inbound)} \cup Range(inbound')
    <3>1. /\ Head(inbound) \in Message /\ Head(inbound).kind = "status"
          /\ Range(inbound) = {Head(inbound)} \cup Range(inbound')
      BY <1>s, <1>r
    <3>2. \A m \in Message : m.kind = "status" => m.from \in Peer
      BY DEF Message
    <3> QED BY <3>1, <3>2
  <2>2. target' \in Nat /\ target' >= target /\ (Advertised[q] <= target' \/ Advertised[q] <= Height[tip])
    BY <1>s, <1>t, <2>1 DEF ObservePeer
  <2>3. \A p \in told : Status(p) = Head(inbound) => p = q
    BY DEF Status
  <2>4. \A p \in told : Status(p) \in Range(inbound) => p = q \/ Status(p) \in Range(inbound')
    BY <2>1, <2>3
  <2> HIDE DEF q
  <2>5. PeersHeard'
    BY <1>s, <1>t, <2>2, <2>4, HeardKept
  <2> QED BY <2>1, <2>2, <2>5 DEF q
<1>5. CASE StartDownload
  <2> DEFINE q == Head(inbound).from
  <2>1. /\ Receives("status") /\ ObservePeer(Advertised[q]) /\ pending' = {<<q, Height[tip] + 1>>}
        /\ UNCHANGED <<stored, tip, requests, told, batch>>
    BY <1>5 DEF StartDownload
  <2>2. q \in Peer /\ target' \in Nat /\ PeersHeard' /\ inbound' \in Seq(Message)
    BY <2>1, <1>s, <1>r
  <2>3. pending' \subseteq Peer \X (Nat \ {0})
    BY <1>t, <2>1, <2>2
  <2>4. SyncTypeOK'
    BY <2>1, <2>2, <2>3 DEF SyncIInv, SyncTypeOK
  <2> QED BY <2>2, <2>4 DEF SyncIInv
<1>6. CASE NoteStatus
  <2>1. /\ Receives("status") /\ ObservePeer(Advertised[Head(inbound).from])
        /\ UNCHANGED <<stored, tip, requests, told, pending, batch>>
    BY <1>6 DEF NoteStatus
  <2>2. target' \in Nat /\ PeersHeard' /\ inbound' \in Seq(Message)
    BY <2>1, <1>s, <1>r
  <2>3. SyncTypeOK'
    BY <2>1, <2>2 DEF SyncIInv, SyncTypeOK
  <2> QED BY <2>2, <2>3 DEF SyncIInv
<1>7. CASE AskHeaders
  <2>1. /\ requests' = requests \cup {GetHeaders(q[1], q[2]) : q \in pending} /\ pending' = {}
        /\ UNCHANGED <<stored, tip, target, inbound, told, batch>>
    BY <1>7 DEF AskHeaders
  <2>2. \A q \in pending : GetHeaders(q[1], q[2]) \in Request /\ GetHeaders(q[1], q[2]).start > 0
    <3>1. << >> \in Seq(Block)
      BY EmptySeq
    <3> QED BY <3>1 DEF GetHeaders, Request, SyncIInv, SyncTypeOK
  <2>3. SyncTypeOK'
    BY <2>1, <2>2 DEF SyncIInv, SyncTypeOK
  <2> QED BY <2>1, <2>3 DEF SyncIInv, PeersHeard
<1>8. CASE OnGossip
  <2>1. /\ Receives("block") /\ UNCHANGED <<target, requests, told, pending, batch>>
        /\ Submit(Head(inbound).from) \/ UNCHANGED <<stored, tip>>
    BY <1>8 DEF OnGossip
  <2>2. Head(inbound).from \in Block /\ inbound' \in Seq(Message)
    BY <2>1, <1>r DEF Message
  <2>3. Genesis \in stored' /\ tip' \in Block /\ Height[tip'] >= Height[tip]
    BY <1>t, <2>1, <2>2, SubmitRaises DEF SyncIInv, SyncTypeOK
  <2>4. SyncTypeOK'
    BY <2>1, <2>2, <2>3 DEF SyncIInv, SyncTypeOK
  <2>5. PeersHeard'
    BY <1>t, <1>o, <2>1, <2>3, HeardKept
  <2> QED BY <2>4, <2>5 DEF SyncIInv
<1>9. CASE OnHeaders
  <2> DEFINE m == Head(inbound)
  <2>1. /\ Receives("headers") /\ requests' \subseteq requests \cup {GetBlocks(m.from, m.body)}
        /\ UNCHANGED <<stored, tip, target, told, pending, batch>>
    BY <1>9 DEF OnHeaders
  <2>2. m.from \in Peer /\ m.body \in Seq(Block) /\ inbound' \in Seq(Message)
    <3>1. m \in Message /\ m.kind = "headers" /\ inbound' \in Seq(Message)
      BY <2>1, <1>r
    <3> HIDE DEF m
    <3>2. m.from \in Peer /\ m.body \in Seq(Block)
      BY <3>1 DEF Message
    <3> QED BY <3>1, <3>2
  <2>3. GetBlocks(m.from, m.body) \in Request /\ GetBlocks(m.from, m.body).kind # "headers"
    BY <2>2 DEF GetBlocks, Request
  <2>4. SyncTypeOK'
    BY <2>1, <2>2, <2>3 DEF SyncIInv, SyncTypeOK
  <2>5. PeersHeard'
    BY <1>t, <1>o, <2>1, HeardKept
  <2> QED BY <2>4, <2>5 DEF SyncIInv
<1>b. /\ batch \in Batches /\ (batch # NoBatch => batch.from \in Peer) /\ (batch.fits => batch.blocks # << >>)
      /\ ~ NoBatch.fits /\ NoBatch.blocks = << >>
  BY DEF SyncIInv, SyncTypeOK, NoBatch, Batch
<1>10. CASE OnBlocks
  <2> DEFINE m == Head(inbound)
  <2>1. /\ Receives("blocks") /\ batch' = Batch(m.from, m.body, FALSE, FALSE)
        /\ UNCHANGED <<stored, tip, target, requests, told, pending>>
    BY <1>10 DEF OnBlocks
  <2>2. m.from \in Peer /\ m.body \in Seq(Block) /\ inbound' \in Seq(Message)
    <3>1. m \in Message /\ m.kind = "blocks" /\ inbound' \in Seq(Message)
      BY <2>1, <1>r
    <3> HIDE DEF m
    <3>2. m.from \in Peer /\ m.body \in Seq(Block)
      BY <3>1 DEF Message
    <3> QED BY <3>1, <3>2
  <2> HIDE DEF m
  <2>3. batch' \in Batches /\ batch'.from \in Peer /\ ~ batch'.fits
    BY <2>1, <2>2 DEF Batch, Batches
  <2>4. SyncTypeOK'
    BY <2>1, <2>2, <2>3 DEF SyncIInv, SyncTypeOK
  <2>5. PeersHeard'
    BY <1>t, <1>o, <2>1, HeardKept
  <2> QED BY <2>4, <2>5 DEF SyncIInv
<1>k. ASSUME BreakOff, batch.blocks # << >>
      PROVE  batch' \in Batches /\ batch'.from \in Peer /\ ~ batch'.fits
  <2>1. batch' = [batch EXCEPT !.blocks = << >>, !.fits = FALSE] /\ batch.from \in Peer
    BY <1>b, <1>k DEF BreakOff
  <2> QED BY <1>b, <2>1, EmptySeq DEF Batches
<1>14. CASE CheckBlock
  <2>1. /\ batch.blocks # << >> /\ UNCHANGED <<stored, tip, target, inbound, requests, told, pending>>
        /\ batch' = [batch EXCEPT !.fits = TRUE] \/ BreakOff
    BY <1>14 DEF CheckBlock
  <2>2. batch' \in Batches /\ batch'.from \in Peer /\ (batch'.fits => batch'.blocks # << >>)
    <3>1. CASE batch' = [batch EXCEPT !.fits = TRUE]
      BY <1>b, <2>1, <3>1 DEF Batches
    <3> QED BY <1>k, <2>1, <3>1
  <2>3. SyncTypeOK'
    BY <2>1, <2>2 DEF SyncIInv, SyncTypeOK
  <2> QED BY <2>1, <2>3 DEF SyncIInv, PeersHeard
<1>15. CASE SubmitBlock
  <2> DEFINE b == Head(batch.blocks)
  <2>1. /\ batch.fits /\ Submit(b) /\ UNCHANGED <<target, inbound, requests, told, pending>>
        /\ BreakOff \/ batch' = Batch(batch.from, Tail(batch.blocks), TRUE, FALSE)
    BY <1>15 DEF SubmitBlock
  <2>2. batch.blocks \in Seq(Block) /\ batch.blocks # << >> /\ batch.from \in Peer
    BY <1>b, <2>1 DEF Batches
  <2>3. b \in Block /\ Tail(batch.blocks) \in Seq(Block)
    BY <2>2, HeadTailProperties
  <2> HIDE DEF b
  <2>4. batch' \in Batches /\ batch'.from \in Peer /\ ~ batch'.fits
    <3>1. CASE BreakOff
      BY <1>k, <2>2, <3>1
    <3>2. CASE batch' = Batch(batch.from, Tail(batch.blocks), TRUE, FALSE)
      BY <2>2, <2>3, <3>2 DEF Batch, Batches
    <3> QED BY <2>1, <3>1, <3>2
  <2>5. Genesis \in stored' /\ tip' \in Block /\ Height[tip'] >= Height[tip]
    BY <2>1, <2>3, SubmitRaises DEF SyncIInv
  <2>6. SyncTypeOK'
    BY <2>1, <2>4, <2>5 DEF SyncIInv, SyncTypeOK
  <2>7. PeersHeard'
    BY <1>t, <2>1, <2>5, HeardKept
  <2> QED BY <2>6, <2>7 DEF SyncIInv
<1>16. CASE EndBatch
  <2>1. /\ batch # NoBatch /\ batch' = NoBatch
        /\ \/ Reached(Height[tip]) /\ target' = 0 /\ UNCHANGED requests
           \/ /\ requests' \subseteq requests \cup {GetHeaders(batch.from, Height[tip] + 1)}
              /\ UNCHANGED target
        /\ UNCHANGED <<stored, tip, inbound, told, pending>>
    BY <1>16 DEF EndBatch
  <2>2. GetHeaders(batch.from, Height[tip] + 1) \in Request /\ GetHeaders(batch.from, Height[tip] + 1).start > 0
    BY <1>b, <1>t, <2>1, EmptySeq DEF GetHeaders, Request
  <2>3. target' \in Nat /\ (target' >= target \/ Height[tip] >= target)
    BY <1>t, <2>1 DEF Reached
  <2>4. NoBatch \in Batches
    BY EmptySeq DEF NoBatch, Batch, Batches
  <2>5. SyncTypeOK'
    BY <1>b, <2>1, <2>2, <2>3, <2>4 DEF SyncIInv, SyncTypeOK
  <2>6. PeersHeard'
    BY <1>t, <2>1, <2>3, HeardKept
  <2> QED BY <2>5, <2>6 DEF SyncIInv
<1>11. ASSUME NEW w \in Worker, MineBlock(w) PROVE SyncIInv'
  <2>1. PICK b \in Minable : Parent[b] = tip /\ stored' = stored \cup {b} /\ tip' = b
    BY <1>11 DEF MineBlock
  <2>2. UNCHANGED <<target, inbound, requests, told, pending, batch>>
    BY <1>11 DEF MineBlock
  <2>3. b \in Block /\ Height[b] = Height[tip] + 1
    BY <2>1, SyncAssumption, HeightAssumption
  <2>4. SyncTypeOK'
    BY <2>1, <2>2, <2>3 DEF SyncIInv, SyncTypeOK
  <2>5. PeersHeard'
    BY <1>t, <2>1, <2>2, <2>3, HeardKept
  <2> QED BY <2>4, <2>5 DEF SyncIInv
<1>12. CASE UNCHANGED syncVars
  BY <1>12 DEF syncVars, SyncIInv, SyncTypeOK, PeersHeard
<1>13. CASE UNCHANGED vars
  BY <1>12, <1>13 DEF vars
<1> QED BY <1>1, <1>2, <1>3, <1>4, <1>5, <1>6, <1>7, <1>8, <1>9, <1>10, <1>11, <1>12, <1>13,
           <1>14, <1>15, <1>16 DEF SyncNext, MiningOnly

\* The types of the download, and no announced height forgotten: the status is
\* still to be handled, or target or tip covers it (sync.rs, observe_peer).
THEOREM SyncInvariant == SyncSpec => []SyncIInv
BY SyncInitial, SyncStep, PTL DEF SyncSpec

\* A download ends only where the node is at least as high as every peer whose
\* identify message was handled (SyncState::advance), even if peers announce
\* themselves during the download, blocks arrive over gossipsub and the local
\* worker moves the tip.
THEOREM DownloadsReachPeers == SyncSpec => DownloadReachesPeers
<1> DEFINE Ends == Syncing /\ ~ Syncing' =>
              \A p \in told : Status(p) \in Range(inbound) \/ Advertised[p] <= Height[tip']
<1>1. SyncIInv /\ SyncIInv' /\ [SyncNext]_vars => Ends
  <2> SUFFICES ASSUME SyncIInv, SyncIInv', [SyncNext]_vars, target > 0, ~ (target' > 0),
                      NEW p \in told, Status(p) \notin Range(inbound)
               PROVE  Advertised[p] <= Height[tip']
    BY DEF Syncing
  <2>1. /\ target \in Nat /\ target' \in Nat /\ tip \in Block /\ tip' \in Block /\ p \in Peer
        /\ Height[tip] \in Nat /\ Height[tip'] \in Nat /\ Advertised[p] \in Nat
    BY SyncAssumption, HeightAssumption DEF SyncIInv, SyncTypeOK
  <2>2. EndBatch
    <3>1. target' # target
      BY <2>1
    <3>2. ASSUME NEW h, ObservePeer(h) PROVE FALSE
      BY <2>1, <3>2 DEF ObservePeer
    <3>3. ~ StartDownload /\ ~ NoteStatus
      BY <3>2 DEF StartDownload, NoteStatus
    <3> QED BY <3>1, <3>3 DEF SyncNext, Identify, WindowSlides, HearBlock, Serve, ServeNothing, Lose,
               AskHeaders, OnGossip, OnHeaders, OnBlocks, CheckBlock, SubmitBlock, MineBlock, MiningOnly,
               syncVars, vars
  <2>3. Height[tip'] >= target
    <3>1. target' # target
      BY <2>1
    <3>2. Reached(Height[tip]) /\ tip' = tip
      BY <2>2, <3>1 DEF EndBatch
    <3> QED BY <3>2 DEF Reached
  <2>4. Height[tip'] >= Height[tip]
    <3>1. tip' = tip
      BY <2>2 DEF EndBatch
    <3> QED BY <2>1, <3>1
  <2>5. Advertised[p] <= target \/ Advertised[p] <= Height[tip]
    BY DEF SyncIInv, PeersHeard
  <2> QED BY <2>1, <2>3, <2>4, <2>5
<1>2. SyncIInv /\ SyncIInv' /\ [SyncNext]_vars => [Ends]_vars
  BY <1>1
<1>3. SyncSpec => [][Ends]_vars
  <2> HIDE DEF Ends
  <2> QED BY <1>2, SyncInvariant, PTL DEF SyncSpec
<1> QED BY <1>3 DEF DownloadReachesPeers
=============================================================================
