---------------------------- MODULE MiningControl ----------------------------
(***************************************************************************)
(* Node::start_mining, stop_mining and shutdown, and the control flow of   *)
(* the worker thread they start and join.                                  *)
(*                                                                         *)
(* start_mining holds the mutex of mining_handle from its check to the     *)
(* spawn, so it is one step.  stop_mining raises the flag without the      *)
(* mutex, takes the handle under it, and joins the thread without it:      *)
(* three steps, between which other threads may call either function.      *)
(* The worker reads the one flag all its predecessors read.                *)
(***************************************************************************)
EXTENDS Naturals, FiniteSets

CONSTANTS
  Caller,      \* the threads that start and stop mining
  Main,        \* the thread that shuts the node down
  Client,      \* the tasks of IPC clients, which do nothing after stop_mining
  Worker,      \* worker threads, in the order in which they are spawned
  NoWorker,
  MiningEnabled,  \* the mining_enabled option
  Reserved     \* bound: workers that SetMining leaves for the node's own starts

ASSUME CallerAssumption == Main \in Caller /\ Client \subseteq Caller \ {Main}
ASSUME WorkerAssumption == Worker \subseteq Nat \ {0} /\ 1 \in Worker /\ NoWorker \notin Worker

VARIABLES
  cancel,      \* mining_cancel, the flag shared by all workers
  handle,      \* mining_handle: the worker a later stop will join
  worker,      \* where each worker thread is
  caller,      \* where each caller is in stop_mining, and what it joins
  phase,       \* the node's state: "running", "stopping", "stopped"
  overtaken    \* callers whose raised flag a start cleared before they were done

miningVars == <<cancel, handle, worker, caller, phase, overtaken>>

Idle == [at |-> "idle", joins |-> NoWorker]

Live(w) == worker[w] \notin {"unborn", "ended"}

Unborn == {w \in Worker : worker[w] = "unborn"}

\* Node::start ran: it starts the worker if mining is enabled.
MiningInit ==
  /\ cancel = FALSE
  /\ handle = IF MiningEnabled THEN 1 ELSE NoWorker
  /\ worker = [w \in Worker |-> IF MiningEnabled /\ w = 1 THEN "top" ELSE "unborn"]
  /\ caller = [c \in Caller |-> Idle]
  /\ phase = "running"
  /\ overtaken = {}

(***************************************************************************)
(* start_mining.                                                           *)
(***************************************************************************)

\* The worker that the next spawn creates.
NextWorker == CHOOSE w \in Unborn : \A v \in Unborn : w <= v

\* No handle is kept: the flag is cleared and a thread is started.
Spawn ==
  /\ cancel' = FALSE
  /\ handle' = NextWorker
  /\ worker' = [worker EXCEPT ![NextWorker] = "top"]
  /\ overtaken' = overtaken \cup {c \in Caller : caller[c].at \in {"take", "join"}}

\* A thread that ended by itself still has its handle here, and counts.
StartMining ==
  IF handle = NoWorker
  THEN Unborn # {} /\ Spawn
  ELSE UNCHANGED <<cancel, handle, worker, overtaken>>

(***************************************************************************)
(* stop_mining and shutdown.                                               *)
(***************************************************************************)

\* The flag is raised before the lock is taken.
RaiseFlag(c) ==
  /\ caller[c].at = "idle"
  /\ cancel' = TRUE
  /\ caller' = [caller EXCEPT ![c].at = "take"]
  /\ UNCHANGED <<handle, worker, overtaken>>

\* stop_mining returns; what follows it is a step of its own.
Return(c) ==
  /\ caller' = [caller EXCEPT ![c] = [Idle EXCEPT !.at = IF c \in Client THEN "idle" ELSE "back"]]
  /\ overtaken' = overtaken \ {c}

\* The handle is taken out; without one there is nothing to join.
TakeHandle(c) ==
  /\ caller[c].at = "take"
  /\ handle' = NoWorker
  /\ IF handle = NoWorker
     THEN Return(c)
     ELSE /\ caller' = [caller EXCEPT ![c] = [at |-> "join", joins |-> handle]]
          /\ UNCHANGED overtaken
  /\ UNCHANGED <<cancel, worker, phase>>

\* Mutant of JoinWorker: the thread is detached instead of joined.
MutDetach(c) ==
  /\ caller[c].at = "join"
  /\ Return(c)
  /\ UNCHANGED <<cancel, handle, worker, phase>>

\* JoinHandle::join returns once the thread has ended.
JoinWorker(c) ==
  /\ caller[c].at = "join"
  /\ worker[caller[c].joins] = "ended"
  /\ Return(c)
  /\ UNCHANGED <<cancel, handle, worker, phase>>

\* The caller goes on with what follows stop_mining.
Returned(c) ==
  /\ caller[c].at = "back"
  /\ caller' = [caller EXCEPT ![c] = Idle]
  /\ UNCHANGED <<cancel, handle, worker, overtaken>>

\* A client of the IPC socket asks for SetMining; its task outlives the server's
\* accept loop, so it may still ask once the node has stopped.
SetMining(c) ==
  /\ caller[c].at = "idle"
  /\ \/ /\ StartMining
        /\ Cardinality(Unborn) > Reserved
        /\ UNCHANGED caller
     \/ RaiseFlag(c)
  /\ UNCHANGED phase

\* The main task has its shutdown signal.
ShutdownBegins ==
  /\ phase = "running"
  /\ phase' = "stopping"
  /\ RaiseFlag(Main)

ShutdownEnds ==
  /\ phase = "stopping"
  /\ phase' = "stopped"
  /\ Returned(Main)

(***************************************************************************)
(* mining_worker_loop.                                                     *)
(***************************************************************************)

Go(w, at) ==
  /\ worker' = [worker EXCEPT ![w] = at]
  /\ UNCHANGED <<cancel, handle, caller, phase, overtaken>>

\* Mutant of LoopTop: the flag is read once a block is found, and not before.
MutNoFlagAtTop(w) == worker[w] = "top" /\ Go(w, "search")

\* The flag ends the loop; else a template is built, or cannot be (10 ms pause).
LoopTop(w) ==
  /\ worker[w] = "top"
  /\ IF cancel THEN Go(w, "ended") ELSE Go(w, "search") \/ Go(w, "top")

\* run_pow_search: cancelled, or a nonce range without a solution, or a solution.
\* A solution found while the flag rises is discarded.
Search(w) ==
  /\ worker[w] = "search"
  /\ \/ Go(w, "top")
     \/ ~ cancel /\ Go(w, "solved")

\* The flag is read again before the block is assembled.
CheckSolved(w) ==
  /\ worker[w] = "solved"
  /\ Go(w, IF cancel THEN "ended" ELSE "commit")

\* Under the chain lock the tip has changed: the block is dropped.
DropStale(w) == worker[w] = "commit" /\ Go(w, "top")

\* The database refuses the block: the loop breaks, and the handle stays.
BreakOnStorage(w) == worker[w] = "commit" /\ Go(w, "ended")

\* The block is committed, or refused by the rules.  The flag is read after a short
\* pause, and then again by LoopTop.
Commit(w) == worker[w] = "commit" /\ Go(w, "top")

WorkerStep(w) ==
  \/ LoopTop(w)
  \/ Search(w)
  \/ CheckSolved(w)
  \/ DropStale(w)
  \/ BreakOnStorage(w)

StopStep(c) == TakeHandle(c) \/ JoinWorker(c)

(***************************************************************************)
(* Properties.                                                             *)
(***************************************************************************)

\* stop_mining returns: every caller that waits in join (node.rs:487) gets its
\* thread, unless a start_mining of another thread cleared the shared flag in
\* between.
StopReturns ==
  \A c \in Caller :
    caller[c].at = "join" ~> caller[c].at # "join" \/ c \in overtaken

\* A worker thread whose handle was given up is being joined or has ended: no
\* thread is left that neither mining_handle nor a caller of join can reach.
NoWorkerLost ==
  \A w \in Worker :
    Live(w) => w = handle \/ \E c \in Caller : caller[c].joins = w
=============================================================================
