------------------------------- MODULE Stratum -------------------------------
(***************************************************************************)
(* The mining pool: crates/scytale-stratum (sessions, jobs, shares) and    *)
(* apps/scytale-node/src/stratum_service.rs, whose broadcaster makes a job *)
(* of each new tip and whose ingestion task submits the candidates.        *)
(*                                                                         *)
(* The tasks run on several threads and share only the maps below, so the  *)
(* broadcaster is cut wherever another task can see it half done, and a    *)
(* submission between finding its job and recording its share.             *)
(*                                                                         *)
(* A hash is written as the list of numbers of what was hashed, so that    *)
(* equal lists are equal hashes and no others are.  Tips are numbered;     *)
(* what the node does with a block is the subject of NodeLedger, and here  *)
(* a block must have an acceptable header that matches its two roots.      *)
(***************************************************************************)
EXTENDS Integers, Sequences, FiniteSets, SequencesExt

CONSTANTS
  Session,       \* session ids, each of one connection
  MaxSessions,   \* MAX_WORKER_SESSIONS
  MaxActiveJobs, \* MAX_ACTIVE_JOBS
  CacheLimit,    \* jobs_cache is cleared when it holds more: 64
  MaxOthers,     \* bound: pending transactions a template may hold
  Share,         \* the (nonce, extranonce2) a worker may hand in for a job
  En2,           \* the extranonce2 of a share
  Time,          \* the times a worker may put into a header
  GoodTime,      \* those the node accepts in a block on the tip of the job
  Grade,         \* how good the hash of a share with a time is (see Grades)
  SameTarget,    \* tips whose target, which a template copies, is the next one too
  MaxTip,        \* bound: blocks
  MaxEvents      \* bound: candidates waiting for the ingestion task

\* What verify_worker_share finds a hash to meet: not even the target of shares,
\* that one alone, the target of blocks if its bytes are read backwards, or the
\* target of blocks as is_met_by reads it.
Grades == {"high", "share", "reversed", "block"}

ASSUME StratumAssumption ==
  /\ MaxActiveJobs \in Nat \ {0}
  /\ CacheLimit \in Nat
  /\ En2 \in [Share -> Nat]
  /\ GoodTime \subseteq Time
  /\ Grade \in [Share -> [Time -> Grades]]
  /\ {MaxSessions, MaxOthers, MaxTip, MaxEvents} \subseteq Nat

VARIABLES
  tip,         \* the node's canonical tip
  maker,       \* the broadcaster: its step, the tip it read, last_tip
  job,         \* the jobs made so far, by job_counter
  cache,       \* jobs_cache: jobs whose transactions the service still has
  current,     \* current_job; 0 is None
  order,       \* job_order, whose ids are the keys of the jobs map
  connected,   \* sessions in the sessions map
  gone,        \* sessions whose reader has ended
  notified,    \* the last job sent to each session; 0 is none
  subscribed,  \* sessions that sent mining.subscribe
  pending,     \* sessions broadcast_job has still to notify
  recorded,    \* submitted_shares of each session
  inflight,    \* the submission a session is handling: {} or {<<job, share>>}
  credited,    \* history: the shares each session was credited with
  twice,       \* history: <<session, job>> credited more than once with a share
  events       \* candidates <<job, share, time>> on the channel to the
               \* ingestion task

makerVars   == <<maker, job, cache>>
poolVars    == <<current, order, pending>>
sessionVars == <<connected, gone, notified, subscribed>>
shareVars   == <<recorded, inflight, credited, twice, events>>
vars == <<tip, makerVars, poolVars, sessionVars, shareVars>>

(***************************************************************************)
(* Hashes and roots.                                                       *)
(***************************************************************************)

ZeroHash == <<0>>
Hash(s) == <<3, Len(s)>> \o FlattenSeq(s)

\* The hash of the coinbase of a template on tip p, with extranonce2 e.
Coinbase(p, e) == <<1, p, e>>
OtherTxs(n) == [i \in 1 .. n |-> <<2, i>>]

\* transaction_commitment: one hash over all ids
Commitment(ids) == Hash(ids)

\* The sibling of the coinbase at one level, and the level above: the last
\* hash is doubled if their number is odd.
Doubled(s) == IF Len(s) % 2 = 0 THEN s ELSE Append(s, Last(s))
Climb(t, k) ==
  LET s == Doubled(t.level)
  IN IF Len(t.level) < 2 THEN t
     ELSE [level |-> [i \in 1 .. Len(s) \div 2 |-> Hash(<<s[2 * i - 1], s[2 * i]>>)],
           branches |-> Append(t.branches, s[2])]

\* calculate_merkle_branches: at most one level for each transaction
CalculateMerkleBranches(others) ==
  FoldLeft(Climb, [level |-> <<ZeroHash>> \o others, branches |-> << >>], others).branches

MerkleBranches(others) ==
  CASE Len(others) = 0 -> <<ZeroHash>>
    [] Len(others) = 1 -> others
    [] OTHER           -> CalculateMerkleBranches(others)

BuildMerkleRoot(j, e) ==
  FoldLeft(LAMBDA h, b : Hash(IF b = ZeroHash THEN <<h>> ELSE <<h, b>>),
           Coinbase(j.prev, e), j.branches)

\* The UTXO root after tip t, the coinbase cb and n more transactions.
UtxoRoot(t, cb, n) == <<t, cb, n>>

(***************************************************************************)
(* The broadcaster.  A tick reads the tip; the template is built under the *)
(* chain lock, the root under the lock of the UTXO set alone, and the job  *)
(* then reaches the cache, current_job, the jobs map and the sessions one  *)
(* after the other.                                                        *)
(***************************************************************************)

Newest == Len(job)

At(a, b) == maker.at = a /\ maker' = [maker EXCEPT !.at = b]

StratumInit ==
  /\ tip = 1
  /\ maker = [at |-> "idle", seen |-> 0, last |-> 0]
  /\ job = << >> /\ cache = {} /\ current = 0 /\ order = << >> /\ pending = {}
  /\ connected = {} /\ gone = {} /\ subscribed = {}
  /\ notified = [s \in Session |-> 0]
  /\ recorded = [s \in Session |-> {}]
  /\ inflight = [s \in Session |-> {}]
  /\ credited = [s \in Session |-> {}]
  /\ twice = {} /\ events = << >>

\* Blocks of peers and of the node's own worker.
TipMoves ==
  /\ tip < MaxTip /\ tip' = tip + 1
  /\ UNCHANGED <<makerVars, poolVars, sessionVars, shareVars>>

Tick ==
  /\ maker.at = "idle" /\ tip # maker.last
  /\ maker' = [maker EXCEPT !.at = "build", !.seen = tip]
  /\ UNCHANGED <<tip, job, cache, poolVars, sessionVars, shareVars>>

\* build_mining_template; the root is of the coinbase that is then replaced.
BuildTemplate ==
  /\ At("build", "root")
  /\ \E n \in 0 .. MaxOthers :
       job' = Append(job, [prev |-> tip, others |-> n, branches |-> MerkleBranches(OtherTxs(n)),
                           root |-> UtxoRoot(tip, << >>, n)])
  /\ UNCHANGED <<tip, cache, poolVars, sessionVars, shareVars>>

TemplateFails ==
  /\ At("build", "idle")
  /\ UNCHANGED <<tip, job, cache, poolVars, sessionVars, shareVars>>

MutNotRecomputed == job[Newest]

\* query_utxo_set and apply_block: if the tip has moved, the transactions of
\* the template may not apply any more, and the template keeps its root.
Recomputed ==
  [job[Newest] EXCEPT !.root = UtxoRoot(tip, Coinbase(job[Newest].prev, 0), @[3])]

TakeRoot ==
  /\ At("root", "cache")
  /\ \/ job' = [job EXCEPT ![Newest] = Recomputed]
     \/ tip # job[Newest].prev /\ job[Newest].others > 0 /\ job' = job
  /\ UNCHANGED <<tip, cache, poolVars, sessionVars, shareVars>>

Cached == (IF Cardinality(cache) > CacheLimit THEN {} ELSE cache) \cup {Newest}

CacheJob ==
  /\ At("cache", "current")
  /\ cache' = Cached
  /\ UNCHANGED <<tip, job, poolVars, sessionVars, shareVars>>

\* broadcast_job, its three steps
SetCurrent ==
  /\ At("current", "enqueue")
  /\ current' = Newest
  /\ UNCHANGED <<tip, job, cache, order, pending, sessionVars, shareVars>>

Window(o) == IF Len(o) > MaxActiveJobs THEN Tail(o) ELSE o

MutPruneEvicted(shares, ids) == {x \in shares : x[1] # Newest - MaxActiveJobs}

\* prune_shares_except
Pruned(shares, ids) == {x \in shares : x[1] \in ids}

Enqueue ==
  /\ At("enqueue", "notify")
  /\ order' = Window(Append(order, Newest))
  /\ recorded' = [s \in Session |-> IF s \in connected THEN Pruned(recorded[s], ToSet(order'))
                                                       ELSE recorded[s]]
  /\ pending' = connected
  /\ UNCHANGED <<tip, job, cache, current, sessionVars, inflight, credited, twice, events>>

Notify(s) ==
  /\ s \in pending /\ pending' = pending \ {s}
  /\ notified' = [notified EXCEPT ![s] = Newest]
  /\ UNCHANGED <<tip, makerVars, current, order, connected, gone, subscribed, shareVars>>

MutLastTip == tip

\* last_tip is the tip the tick read first, not the one of the template.
LastTip == maker.seen

EndBroadcast ==
  /\ maker.at = "notify" /\ pending = {}
  /\ maker' = [maker EXCEPT !.at = "idle", !.last = LastTip]
  /\ UNCHANGED <<tip, job, cache, poolVars, sessionVars, shareVars>>

Shutdown ==
  /\ At("idle", "stopped")
  /\ UNCHANGED <<tip, job, cache, poolVars, sessionVars, shareVars>>

Broadcaster ==
  Tick \/ BuildTemplate \/ TakeRoot \/ CacheJob \/ SetCurrent \/ Enqueue
    \/ (\E s \in Session : Notify(s)) \/ EndBroadcast

(***************************************************************************)
(* The sessions: handle_connection and dispatch_rpc.  mining.authorize     *)
(* only stores a name that nothing reads, and a submission that is         *)
(* malformed, too poor, or of a job not in the map, changes nothing.       *)
(***************************************************************************)

Connect(s) ==
  /\ s \notin connected \cup gone /\ Cardinality(connected) < MaxSessions
  /\ connected' = connected \cup {s}
  /\ UNCHANGED <<tip, makerVars, poolVars, gone, notified, subscribed, shareVars>>

MutSubscribeSilent(s) == notified

Subscribed(s) == [notified EXCEPT ![s] = IF current # 0 THEN current ELSE @]

\* The reader of s waits for a line.
Reading(s) == s \in connected \ gone /\ inflight[s] = {}

Subscribe(s) ==
  /\ Reading(s)
  /\ subscribed' = subscribed \cup {s}
  /\ notified' = Subscribed(s)
  /\ UNCHANGED <<tip, makerVars, poolVars, connected, gone, shareVars>>

FindJob(s) ==
  /\ Reading(s)
  /\ \E j \in ToSet(order), h \in Share : inflight' = [inflight EXCEPT ![s] = {<<j, h>>}]
  /\ UNCHANGED <<tip, makerVars, poolVars, sessionVars, recorded, credited, twice, events>>

MutCandidatesAlwaysFresh(s, x) == x \notin recorded[s] \/ \E t \in Time : Grade[x[2]][t] = "block"

\* check_and_record_share: the time is not part of what is remembered.
Fresh(s, x) == x \notin recorded[s]

\* meets_network: a candidate in either order of the bytes
Candidate(grade) == grade \in {"reversed", "block"}

\* ... and then verify_worker_share, on a header with the worker's time
RecordShare(s) ==
  \E x \in inflight[s], t \in Time :
    LET new == Fresh(s, x)   grade == Grade[x[2]][t]
    IN /\ inflight' = [inflight EXCEPT ![s] = {}]
       /\ recorded' = [recorded EXCEPT ![s] = @ \cup {x}]
       /\ IF new /\ grade # "high"
          THEN /\ credited' = [credited EXCEPT ![s] = @ \cup {x}]
               /\ twice' = IF x \in credited[s] THEN twice \cup {<<s, x[1]>>} ELSE twice
          ELSE UNCHANGED <<credited, twice>>
       /\ IF new /\ Candidate(grade)
          THEN Len(events) < MaxEvents /\ events' = Append(events, <<x[1], x[2], t>>)
          ELSE UNCHANGED events
       /\ UNCHANGED <<tip, makerVars, poolVars, sessionVars>>

\* The connection is closed or idle for WORKER_IDLE_TIMEOUT_SECS.
Disconnect(s) ==
  /\ Reading(s)
  /\ connected' = connected \ {s} /\ gone' = gone \cup {s}
  /\ subscribed' = subscribed \ {s} /\ pending' = pending \ {s}
  /\ notified' = [notified EXCEPT ![s] = 0]
  /\ recorded' = [recorded EXCEPT ![s] = {}] /\ credited' = [credited EXCEPT ![s] = {}]
  /\ UNCHANGED <<tip, makerVars, current, order, inflight, twice, events>>

\* A line cannot be read or decoded: handle_connection returns early and its
\* entry stays in the sessions map, which still notifies it and counts it.
Abandon(s) ==
  /\ Reading(s)
  /\ gone' = gone \cup {s}
  /\ UNCHANGED <<tip, makerVars, poolVars, connected, notified, subscribed, shareVars>>

(***************************************************************************)
(* The ingestion task, and the checks of the node its blocks meet.         *)
(***************************************************************************)

\* The target, the hash (in one order of its bytes) and the time.
HeaderAccepted(x) ==
  /\ job[x[1]].prev \in SameTarget
  /\ Grade[x[2]][x[3]] = "block"
  /\ x[3] \in GoodTime

CommitmentMatches(j, e) ==
  BuildMerkleRoot(j, e) = Commitment(<<Coinbase(j.prev, e)>> \o OtherTxs(j.others))

UtxoRootMatches(j, e) == j.root = UtxoRoot(j.prev, Coinbase(j.prev, e), j.others)

Accepted(x) ==
  LET j == job[x[1]]   e == En2[x[2]]
  IN HeaderAccepted(x) /\ CommitmentMatches(j, e) /\ UtxoRootMatches(j, e)

\* What becomes of a candidate now.
Fate(x) ==
  CASE x[1] \notin cache                     -> "unknown"
    [] ~Accepted(x)                          -> "refused"
    [] job[x[1]].prev = tip /\ tip < MaxTip  -> "connected"
    [] OTHER                                 -> "aside"

Ingest ==
  /\ events # << >> /\ events' = Tail(events)
  /\ tip' = IF Fate(Head(events)) = "connected" THEN tip + 1 ELSE tip
  /\ UNCHANGED <<makerVars, poolVars, sessionVars, recorded, inflight, credited, twice>>

SessionStep(s) ==
  Connect(s) \/ Subscribe(s) \/ FindJob(s) \/ RecordShare(s) \/ Disconnect(s) \/ Abandon(s)

StratumNext == TipMoves \/ Broadcaster \/ TemplateFails \/ Shutdown \/ Ingest \/ \E s \in Session : SessionStep(s)

\* The ticker keeps ticking, a tick runs to its end, and not every attempt at
\* a template fails (Mempool!TemplateApplies: its transactions apply).
StratumSpec ==
  StratumInit /\ [][StratumNext]_vars /\ WF_vars(Broadcaster) /\ SF_vars(BuildTemplate)

(***************************************************************************)
(* Properties.                                                             *)
(***************************************************************************)

\* A session is credited with a share (server.rs, step 5 of mining.submit) at
\* most once as long as its job is in the window.  Afterwards a submission
\* that found its job before broadcast_job evicted it may be credited again.
CreditOnce == \A x \in twice : x[2] \notin ToSet(order)

\* submitted_shares stays bounded over a long session: besides those of the
\* jobs in the window it holds at most the one share that was being handled
\* when its job was evicted.
ShareMemoryBounded ==
  \A s \in connected :
    Cardinality({x \in recorded[s] : x[1] \notin ToSet(order) /\ x[1] < current}) <= 1

\* Between two broadcasts every subscribed worker mines the current job,
\* however its subscription fell into the broadcast.
WorkersOnCurrentJob ==
  maker.at \in {"idle", "stopped"} => \A s \in subscribed : notified[s] = current

\* A candidate for the current job connects if the tip has not moved, its
\* header is one the node accepts, its worker left extranonce2 at zero and the
\* job has at most one transaction, although the root was taken from a UTXO set
\* read after the template and the cache may just have been cleared.  (Between
\* the clearing and the publication of the next job the current one is not in
\* the cache.)  Each of the conditions is one the pool itself does not ask for
\* before it credits a candidate.
ZeroNonceConnects ==
  \A x \in ToSet(events) :
    LET j == job[x[1]]
    IN /\ x[1] = current /\ maker.at # "current"
       /\ j.prev = tip /\ tip < MaxTip
       /\ HeaderAccepted(x)
       /\ En2[x[2]] = 0 /\ j.others <= 1
       => Fate(x) = "connected"

\* The claim of ShareVerificationResult::BlockCandidate, "block found!": a
\* candidate the pool has credited connects if its parent is still the tip.
CandidatesConnect ==
  \A x \in ToSet(events) :
    job[x[1]].prev = tip /\ tip < MaxTip /\ x[1] \in cache => Fate(x) = "connected"

\* Workers always come to mine on the tip, even if it moves while the
\* broadcaster is making a job of the one before, unless it is shut down.
JobFollowsTip ==
  []<>(maker.at = "stopped" \/ (current # 0 /\ job[current].prev = tip))
=============================================================================
