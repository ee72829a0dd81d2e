---------------------------- MODULE StratumProofs ----------------------------
(***************************************************************************)
(* Proofs about Stratum, for every set of sessions and shares and every    *)
(* size of the window of active jobs.                                      *)
(*                                                                         *)
(* Job numbers only grow, and a job enters the window once: everything     *)
(* that names a job names a published one.  From this follow what the      *)
(* pruning of submitted_shares may forget (CreditMemory), how much it      *)
(* leaves behind (StraysBounded), and which workers the broadcaster has    *)
(* still to reach (NotifyProgress).                                        *)
(***************************************************************************)
EXTENDS Stratum, FiniteSetTheorems, SequenceTheorems, TLAPS

\* The newest job that was put into the window, or could have been.
Published ==
  IF maker.at \in {"root", "cache", "current", "enqueue"} THEN Newest - 1 ELSE Newest

StratumTypeOK ==
  /\ maker.at \in {"idle", "build", "root", "cache", "current", "enqueue", "notify", "stopped"}
  /\ maker = [at |-> maker.at, seen |-> maker.seen, last |-> maker.last]
  /\ job \in Seq(ToSet(job))
  /\ order \in Seq(Nat)
  /\ connected \subseteq Session
  /\ notified \in [Session -> Nat]
  /\ recorded \in [Session -> SUBSET (Nat \X Share)]
  /\ inflight \in [Session -> SUBSET (Nat \X Share)]
  /\ credited \in [Session -> SUBSET (Nat \X Share)]
  /\ twice \subseteq Session \X Nat

\* The job of current_job, and the jobs that the other parts may name.
JobNumbers ==
  /\ maker.at \in {"root", "cache", "current", "enqueue"} => Newest > 0
  /\ current = IF maker.at = "enqueue" THEN Newest ELSE Published
  /\ \A j \in ToSet(order) : j <= Published
  /\ \A s \in Session : \A x \in recorded[s] \cup inflight[s] \cup credited[s] : x[1] <= Published
  /\ \A x \in twice : x[2] <= Published

\* A credited share is remembered while its job is in the window.
CreditMemory ==
  \A s \in Session : \A x \in credited[s] : x[1] \in ToSet(order) => x \in recorded[s]

\* A session handles one submission at a time, and at most one of the shares it
\* remembers or handles is of an evicted job.
StraysBounded ==
  \A s \in Session :
    /\ s \notin connected => recorded[s] = {} /\ inflight[s] = {}
    /\ \A x, y \in inflight[s] : x = y
    /\ \A x, y \in recorded[s] \cup inflight[s] :
         x[1] \notin ToSet(order) /\ y[1] \notin ToSet(order) => x = y

\* Whom the broadcaster has still to tell of the current job.
NotifyProgress ==
  /\ subscribed \subseteq connected
  /\ pending \subseteq connected
  /\ maker.at # "notify" => pending = {}
  /\ \A s \in Session : notified[s] <= current
  /\ maker.at # "enqueue" => \A s \in subscribed \ pending : notified[s] = current

StratumIInv ==
  /\ StratumTypeOK
  /\ JobNumbers
  /\ CreditMemory
  /\ CreditOnce
  /\ StraysBounded
  /\ NotifyProgress

-----------------------------------------------------------------------------

\* The elements of a sequence are the least set it is a sequence over.
LEMMA SeqOfToSet ==
  ASSUME NEW S, NEW q, q \in Seq(S)
  PROVE  q \in Seq(ToSet(q))
BY SeqOfRange DEF ToSet, Range

\* A template is added to the jobs made so far.
LEMMA JobGrows ==
  ASSUME NEW q, q \in Seq(ToSet(q)), NEW e
  PROVE  /\ Len(q) \in Nat
         /\ Append(q, e) \in Seq(ToSet(Append(q, e)))
         /\ Len(Append(q, e)) = Len(q) + 1
<1> DEFINE S == ToSet(q) \cup {e}
<1>1. q \in Seq(S)
  BY SeqMonotonic
<1>2. Append(q, e) \in Seq(S) /\ Len(Append(q, e)) = Len(q) + 1 /\ Len(q) \in Nat
  BY <1>1, AppendProperties, LenProperties
<1>3. Append(q, e) \in Seq(ToSet(Append(q, e)))
  BY <1>2, SeqOfToSet
<1> QED BY <1>2, <1>3

\* The root of the newest template is replaced.
LEMMA JobReplaced ==
  ASSUME NEW q, q \in Seq(ToSet(q)), NEW e, Len(q) > 0
  PROVE  LET r == [q EXCEPT ![Len(q)] = e]
         IN r \in Seq(ToSet(r)) /\ Len(r) = Len(q)
<1> DEFINE S == ToSet(q) \cup {e}
           r == [q EXCEPT ![Len(q)] = e]
<1>1. q \in Seq(S) /\ Len(q) \in 1 .. Len(q)
  BY SeqMonotonic, LenProperties
<1>2. r \in Seq(S) /\ Len(r) = Len(q)
  BY <1>1, ExceptSeq
<1>3. r \in Seq(ToSet(r))
  <2> HIDE DEF S, r
  <2> QED BY <1>2, SeqOfToSet
<1> QED BY <1>2, <1>3

\* The window takes one job in and may give its oldest up (jobs.rs, add_job).
LEMMA WindowMoves ==
  ASSUME NEW o \in Seq(Nat), NEW n \in Nat
  PROVE  /\ Window(Append(o, n)) \in Seq(Nat)
         /\ ToSet(Window(Append(o, n))) \subseteq ToSet(o) \cup {n}
<1> DEFINE a == Append(o, n)
<1>1. a \in Seq(Nat) /\ a # << >> /\ DOMAIN a = 1 .. Len(o) + 1 /\ Len(o) \in Nat
  BY AppendProperties, LenProperties
<1>2. \A i \in 1 .. Len(o) + 1 : a[i] \in ToSet(o) \cup {n}
  BY AppendProperties, LenProperties DEF ToSet
<1>3. ToSet(a) \subseteq ToSet(o) \cup {n}
  BY <1>1, <1>2 DEF ToSet
<1>4. Tail(a) \in Seq(Nat) /\ Len(Tail(a)) = Len(o) /\ \A i \in 1 .. Len(o) : Tail(a)[i] = a[i + 1]
  BY <1>1, HeadTailProperties, AppendProperties
<1>5. DOMAIN Tail(a) = 1 .. Len(o)
  BY <1>4, LenProperties
<1>6. ToSet(Tail(a)) \subseteq ToSet(o) \cup {n}
  BY <1>1, <1>2, <1>4, <1>5, SMTT(30) DEF ToSet
<1> QED BY <1>1, <1>3, <1>4, <1>6 DEF Window

\* A new server: no client, no share remembered, the first job.
LEMMA StratumInitial == StratumInit => StratumIInv
<1> SUFFICES ASSUME StratumInit PROVE StratumIInv
  OBVIOUS
<1>1. ToSet(<< >>) = {} /\ Len(<< >>) = 0 /\ \A S : << >> \in Seq(S)
  BY EmptySeq DEF ToSet
<1>2. StratumTypeOK
  BY <1>1 DEF StratumInit, StratumTypeOK
<1>3. JobNumbers /\ CreditMemory /\ CreditOnce /\ StraysBounded /\ NotifyProgress
  BY <1>1 DEF StratumInit, JobNumbers, Published, Newest, CreditMemory, CreditOnce, StraysBounded, NotifyProgress
<1> QED BY <1>2, <1>3 DEF StratumIInv

\* Steps of the node and of the ingestion task leave the pool alone.
LEMMA UnchangedIInv ==
  ASSUME StratumIInv,
         UNCHANGED <<makerVars, poolVars, connected, notified, subscribed>>,
         UNCHANGED <<recorded, inflight, credited, twice>>
  PROVE  StratumIInv'
BY DEF StratumIInv, StratumTypeOK, JobNumbers, Published, Newest, CreditMemory, CreditOnce, StraysBounded,
       NotifyProgress, makerVars, poolVars

\* Every task of the server keeps the invariant: the sockets' loops, the job
\* updates, the submissions and the node's answers.
LEMMA StratumStep == StratumIInv /\ [StratumNext]_vars => StratumIInv'
<1> SUFFICES ASSUME StratumIInv, [StratumNext]_vars PROVE StratumIInv'
  OBVIOUS
<1> USE DEF StratumIInv
<1>n. Newest \in Nat
  BY LenProperties DEF StratumTypeOK, Newest
<1>1. CASE TipMoves
  <2>1. /\ UNCHANGED <<makerVars, poolVars, connected, notified, subscribed>>
        /\ UNCHANGED <<recorded, inflight, credited, twice>>
    BY <1>1 DEF TipMoves, sessionVars, shareVars
  <2> QED BY <2>1, UnchangedIInv
<1>2. CASE Ingest
  <2>1. /\ UNCHANGED <<makerVars, poolVars, connected, notified, subscribed>>
        /\ UNCHANGED <<recorded, inflight, credited, twice>>
    BY <1>2 DEF Ingest, sessionVars
  <2> QED BY <2>1, UnchangedIInv
<1>3. CASE Tick \/ TemplateFails \/ Shutdown \/ EndBroadcast
  <2>1. /\ maker'.at \in {"idle", "build", "stopped"}
        /\ maker' = [at |-> maker'.at, seen |-> maker'.seen, last |-> maker'.last]
        /\ maker.at \in {"idle", "build", "notify"}
        /\ maker.at = "notify" => pending = {}
        /\ UNCHANGED <<job, poolVars, sessionVars, recorded, inflight, credited, twice>>
    BY <1>3 DEF Tick, TemplateFails, Shutdown, EndBroadcast, At, StratumTypeOK, shareVars
  <2>2. StratumTypeOK'
    BY <2>1 DEF StratumTypeOK, poolVars, sessionVars
  <2>3. Newest' = Newest /\ Published' = Newest /\ Published = Newest
    BY <2>1 DEF Published, Newest
  <2>4. JobNumbers'
    BY <2>1, <2>3 DEF JobNumbers, poolVars
  <2>5. CreditMemory' /\ CreditOnce' /\ StraysBounded'
    BY <2>1 DEF CreditMemory, CreditOnce, StraysBounded, poolVars, sessionVars
  <2>6. NotifyProgress'
    BY <2>1 DEF NotifyProgress, poolVars, sessionVars
  <2> QED BY <2>2, <2>4, <2>5, <2>6
<1>4. CASE BuildTemplate
  <2>1. PICK e : job' = Append(job, e)
    BY <1>4 DEF BuildTemplate
  <2>2. /\ maker.at = "build" /\ maker' = [maker EXCEPT !.at = "root"]
        /\ UNCHANGED <<poolVars, sessionVars, shareVars>>
    BY <1>4 DEF BuildTemplate, At
  <2>3. job' \in Seq(ToSet(job')) /\ Newest' = Newest + 1
    BY <2>1, JobGrows DEF StratumTypeOK, Newest
  <2>4. StratumTypeOK'
    BY <2>2, <2>3 DEF StratumTypeOK, poolVars, sessionVars, shareVars
  <2>5. Published' = Newest /\ Published = Newest /\ maker'.at = "root"
    BY <1>n, <2>2, <2>3 DEF Published, StratumTypeOK
  <2>6. JobNumbers'
    BY <1>n, <2>2, <2>3, <2>5 DEF JobNumbers, poolVars, shareVars
  <2>7. CreditMemory' /\ CreditOnce' /\ StraysBounded'
    BY <2>2 DEF CreditMemory, CreditOnce, StraysBounded, poolVars, sessionVars, shareVars
  <2>8. NotifyProgress'
    BY <2>2, <2>5 DEF NotifyProgress, poolVars, sessionVars
  <2> QED BY <2>4, <2>6, <2>7, <2>8
<1>5. CASE TakeRoot
  <2>1. /\ maker.at = "root" /\ maker' = [maker EXCEPT !.at = "cache"]
        /\ UNCHANGED <<poolVars, sessionVars, shareVars>>
        /\ \/ job' = [job EXCEPT ![Newest] = Recomputed]
           \/ job' = job
    BY <1>5 DEF TakeRoot, At
  <2>2. job' \in Seq(ToSet(job')) /\ Newest' = Newest
    <3>1. job \in Seq(ToSet(job)) /\ Newest = Len(job) /\ Newest' = Len(job') /\ Len(job) > 0
      BY <1>n, <2>1 DEF StratumTypeOK, JobNumbers, Newest
    <3>2. CASE job' = [job EXCEPT ![Len(job)] = Recomputed]
      BY <3>1, <3>2, JobReplaced
    <3> QED BY <2>1, <3>1, <3>2
  <2>3. StratumTypeOK'
    BY <2>1, <2>2 DEF StratumTypeOK, poolVars, sessionVars, shareVars
  <2>4. Published' = Published /\ maker'.at = "cache"
    BY <2>1, <2>2 DEF Published, StratumTypeOK
  <2>5. JobNumbers'
    BY <2>1, <2>2, <2>4 DEF JobNumbers, poolVars, shareVars
  <2>6. CreditMemory' /\ CreditOnce' /\ StraysBounded'
    BY <2>1 DEF CreditMemory, CreditOnce, StraysBounded, poolVars, sessionVars, shareVars
  <2>7. NotifyProgress'
    BY <2>1, <2>4 DEF NotifyProgress, poolVars, sessionVars
  <2> QED BY <2>3, <2>5, <2>6, <2>7
<1>6. CASE CacheJob
  <2>1. /\ maker.at = "cache" /\ maker' = [maker EXCEPT !.at = "current"]
        /\ UNCHANGED <<job, poolVars, sessionVars, shareVars>>
    BY <1>6 DEF CacheJob, At
  <2>2. StratumTypeOK'
    BY <2>1 DEF StratumTypeOK, poolVars, sessionVars, shareVars
  <2>3. Newest' = Newest /\ Published' = Published /\ maker'.at = "current"
    BY <2>1 DEF Published, Newest, StratumTypeOK
  <2>4. JobNumbers'
    BY <2>1, <2>3 DEF JobNumbers, poolVars, shareVars
  <2>5. CreditMemory' /\ CreditOnce' /\ StraysBounded'
    BY <2>1 DEF CreditMemory, CreditOnce, StraysBounded, poolVars, sessionVars, shareVars
  <2>6. NotifyProgress'
    BY <2>1, <2>3 DEF NotifyProgress, poolVars, sessionVars
  <2> QED BY <2>2, <2>4, <2>5, <2>6
<1>7. CASE SetCurrent
  <2>1. /\ maker.at = "current" /\ maker' = [maker EXCEPT !.at = "enqueue"] /\ current' = Newest
        /\ UNCHANGED <<job, order, pending, sessionVars, shareVars>>
    BY <1>7 DEF SetCurrent, At
  <2>2. StratumTypeOK'
    BY <2>1 DEF StratumTypeOK, sessionVars, shareVars
  <2>3. /\ Newest' = Newest /\ Published' = Published /\ maker'.at = "enqueue"
        /\ current = Newest - 1 /\ current' = Newest
    BY <2>1 DEF Published, Newest, StratumTypeOK, JobNumbers
  <2>4. JobNumbers'
    BY <2>1, <2>3 DEF JobNumbers, shareVars
  <2>5. CreditMemory' /\ CreditOnce' /\ StraysBounded'
    BY <2>1 DEF CreditMemory, CreditOnce, StraysBounded, sessionVars, shareVars
  <2>6. NotifyProgress'
    BY <1>n, <2>1, <2>3 DEF NotifyProgress, StratumTypeOK, sessionVars
  <2> QED BY <2>2, <2>4, <2>5, <2>6
<1>8. CASE Enqueue
  <2> DEFINE new == [s \in Session |-> IF s \in connected THEN Pruned(recorded[s], ToSet(order'))
                                                        ELSE recorded[s]]
  <2>1. /\ maker.at = "enqueue" /\ maker' = [maker EXCEPT !.at = "notify"]
        /\ order' = Window(Append(order, Newest)) /\ recorded' = new /\ pending' = connected
        /\ UNCHANGED <<job, current, sessionVars, inflight, credited, twice>>
    BY <1>8 DEF Enqueue, At
  <2>2. order' \in Seq(Nat) /\ ToSet(order') \subseteq ToSet(order) \cup {Newest}
    BY <1>n, <2>1, WindowMoves DEF StratumTypeOK
  <2>3. \A s \in Session : recorded'[s] = {x \in recorded[s] : x[1] \in ToSet(order')}
    BY <2>1 DEF Pruned, StraysBounded
  <2>4. StratumTypeOK'
    <3>1. recorded' \in [Session -> SUBSET (Nat \X Share)]
      BY <2>1 DEF StratumTypeOK, Pruned
    <3> QED BY <2>1, <2>2, <3>1 DEF StratumTypeOK, sessionVars
  <2>5. /\ Newest' = Newest /\ Published' = Newest /\ maker'.at = "notify"
        /\ Published = Newest - 1 /\ current = Newest
    BY <2>1 DEF Published, Newest, StratumTypeOK, JobNumbers
  <2>6. JobNumbers'
    <3>1. \A j \in ToSet(order') : j <= Newest
      <4>1. \A j \in ToSet(order) : j \in Nat /\ j <= Newest - 1
        BY <2>5, LenProperties DEF JobNumbers, StratumTypeOK, ToSet
      <4> QED BY <1>n, <2>2, <4>1
    <3>2. \A s \in Session : \A x \in recorded'[s] \cup inflight'[s] \cup credited'[s] : x[1] <= Newest
      <4> SUFFICES ASSUME NEW s \in Session, NEW x \in recorded[s] \cup inflight[s] \cup credited[s]
                   PROVE  x[1] <= Newest
        BY <2>1, <2>3
      <4>1. x[1] \in Nat /\ x[1] <= Newest - 1
        BY <2>5 DEF JobNumbers, StratumTypeOK
      <4> QED BY <1>n, <4>1
    <3>3. \A x \in twice : x[2] <= Newest
      <4> SUFFICES ASSUME NEW x \in twice PROVE x[2] <= Newest
        OBVIOUS
      <4>1. x[2] \in Nat /\ x[2] <= Newest - 1
        BY <2>5 DEF JobNumbers, StratumTypeOK
      <4> QED BY <1>n, <4>1
    <3> QED BY <2>1, <2>5, <3>1, <3>2, <3>3 DEF JobNumbers
  <2>7. CreditMemory'
    <3> SUFFICES ASSUME NEW s \in Session, NEW x \in credited[s], x[1] \in ToSet(order')
                 PROVE  x \in recorded'[s]
      BY <2>1 DEF CreditMemory
    <3>1. x[1] \in Nat /\ x[1] <= Newest - 1
      BY <2>5 DEF JobNumbers, StratumTypeOK
    <3>2. x[1] \in ToSet(order)
      BY <1>n, <2>2, <3>1
    <3> QED BY <2>3, <3>2 DEF CreditMemory
  <2>8. CreditOnce'
    <3> SUFFICES ASSUME NEW x \in twice PROVE x[2] \notin ToSet(order')
      BY <2>1 DEF CreditOnce
    <3>1. x[2] \in Nat /\ x[2] <= Newest - 1
      BY <2>5 DEF JobNumbers, StratumTypeOK
    <3> QED BY <1>n, <2>2, <3>1 DEF CreditOnce
  <2>9. StraysBounded'
    BY <2>1, <2>3 DEF StraysBounded, sessionVars
  <2>10. NotifyProgress'
    BY <2>1, <2>5 DEF NotifyProgress, sessionVars
  <2> QED BY <2>4, <2>6, <2>7, <2>8, <2>9, <2>10
<1>9. ASSUME NEW s \in Session, Notify(s) PROVE StratumIInv'
  <2>1. /\ s \in pending /\ pending' = pending \ {s} /\ notified' = [notified EXCEPT ![s] = Newest]
        /\ UNCHANGED <<makerVars, current, order, connected, gone, subscribed, shareVars>>
    BY <1>9 DEF Notify
  <2>2. /\ maker.at = "notify" /\ current = Newest
        /\ Newest' = Newest /\ Published' = Published
    BY <2>1 DEF NotifyProgress, JobNumbers, Published, Newest, makerVars
  <2>3. StratumTypeOK'
    BY <1>n, <2>1 DEF StratumTypeOK, makerVars, shareVars
  <2>4. JobNumbers' /\ CreditMemory' /\ CreditOnce' /\ StraysBounded'
    BY <2>1, <2>2 DEF JobNumbers, CreditMemory, CreditOnce, StraysBounded, makerVars, shareVars
  <2>5. NotifyProgress'
    BY <1>n, <2>1, <2>2 DEF NotifyProgress, StratumTypeOK, makerVars
  <2> QED BY <2>3, <2>4, <2>5
<1>10. ASSUME NEW s \in Session, Connect(s) PROVE StratumIInv'
  <2>1. /\ s \notin connected /\ connected' = connected \cup {s}
        /\ UNCHANGED <<makerVars, poolVars, gone, notified, subscribed, shareVars>>
    BY <1>10 DEF Connect
  <2>2. StratumTypeOK' /\ JobNumbers' /\ CreditMemory' /\ CreditOnce'
    BY <2>1 DEF StratumTypeOK, JobNumbers, Published, Newest, CreditMemory, CreditOnce, makerVars, poolVars, shareVars
  <2>3. StraysBounded'
    BY <2>1 DEF StraysBounded, poolVars, shareVars
  <2>4. NotifyProgress'
    BY <2>1 DEF NotifyProgress, makerVars, poolVars
  <2> QED BY <2>2, <2>3, <2>4
<1>11. ASSUME NEW s \in Session, Subscribe(s) PROVE StratumIInv'
  <2>1. /\ s \in connected /\ subscribed' = subscribed \cup {s}
        /\ notified' = [notified EXCEPT ![s] = IF current # 0 THEN current ELSE @]
        /\ UNCHANGED <<makerVars, poolVars, connected, gone, shareVars>>
    BY <1>11 DEF Subscribe, Subscribed, Reading
  <2>2. current \in Nat
    BY <1>n DEF JobNumbers, Published
  <2>3. notified'[s] = current
    BY <2>1, <2>2 DEF NotifyProgress, StratumTypeOK
  <2>4. StratumTypeOK'
    BY <2>1, <2>2 DEF StratumTypeOK, makerVars, poolVars, shareVars
  <2>5. JobNumbers' /\ CreditMemory' /\ CreditOnce' /\ StraysBounded'
    BY <2>1 DEF JobNumbers, Published, Newest, CreditMemory, CreditOnce, StraysBounded, makerVars, poolVars, shareVars
  <2>6. NotifyProgress'
    BY <2>1, <2>2, <2>3 DEF NotifyProgress, StratumTypeOK, makerVars, poolVars
  <2> QED BY <2>4, <2>5, <2>6
<1>12. ASSUME NEW s \in Session, FindJob(s) PROVE StratumIInv'
  <2>1. PICK j \in ToSet(order), h \in Share : inflight' = [inflight EXCEPT ![s] = {<<j, h>>}]
    BY <1>12 DEF FindJob
  <2>2. /\ s \in connected /\ inflight[s] = {}
        /\ UNCHANGED <<makerVars, poolVars, sessionVars, recorded, credited, twice>>
    BY <1>12 DEF FindJob, Reading
  <2>3. j \in Nat /\ j <= Published
    BY LenProperties DEF StratumTypeOK, ToSet, JobNumbers
  <2>4. StratumTypeOK'
    BY <2>1, <2>2, <2>3 DEF StratumTypeOK, makerVars, poolVars, sessionVars
  <2>5. Newest' = Newest /\ Published' = Published
    BY <2>2 DEF Newest, Published, makerVars
  <2>6. JobNumbers'
    BY <2>1, <2>2, <2>3, <2>5 DEF JobNumbers, StratumTypeOK, makerVars, poolVars
  <2>7. CreditMemory' /\ CreditOnce' /\ NotifyProgress'
    BY <2>2 DEF CreditMemory, CreditOnce, NotifyProgress, makerVars, poolVars, sessionVars
  <2>8. StraysBounded'
    <3> SUFFICES ASSUME NEW t \in Session
                 PROVE  /\ t \notin connected => recorded[t] = {} /\ inflight'[t] = {}
                        /\ \A x, y \in inflight'[t] : x = y
                        /\ \A x, y \in recorded[t] \cup inflight'[t] :
                             x[1] \notin ToSet(order) /\ y[1] \notin ToSet(order) => x = y
      BY <2>2 DEF StraysBounded, poolVars, sessionVars
    <3>1. CASE t = s
      <4>1. inflight'[t] = {<<j, h>>}
        BY <2>1, <3>1 DEF StratumTypeOK
      <4>2. \A x \in inflight'[t] : x[1] \in ToSet(order)
        BY <4>1
      <4> QED BY <2>2, <3>1, <4>1, <4>2 DEF StraysBounded
    <3>2. CASE t # s
      <4>1. inflight'[t] = inflight[t]
        BY <2>1, <3>2 DEF StratumTypeOK
      <4> QED BY <4>1 DEF StraysBounded
    <3> QED BY <3>1, <3>2
  <2> QED BY <2>4, <2>6, <2>7, <2>8
<1>13. ASSUME NEW s \in Session, RecordShare(s) PROVE StratumIInv'
  <2>1. PICK x \in inflight[s], time \in Time :
          /\ inflight' = [inflight EXCEPT ![s] = {}]
          /\ recorded' = [recorded EXCEPT ![s] = @ \cup {x}]
          /\ IF Fresh(s, x) /\ Grade[x[2]][time] # "high"
             THEN /\ credited' = [credited EXCEPT ![s] = @ \cup {x}]
                  /\ twice' = IF x \in credited[s] THEN twice \cup {<<s, x[1]>>} ELSE twice
             ELSE UNCHANGED <<credited, twice>>
          /\ UNCHANGED <<makerVars, poolVars, sessionVars>>
    BY <1>13 DEF RecordShare
  <2>2. x \in Nat \X Share /\ x[1] \in Nat /\ x[1] <= Published
    BY DEF StratumTypeOK, JobNumbers
  <2>3. credited' \in {credited, [credited EXCEPT ![s] = @ \cup {x}]}
    BY <2>1
  <2>4. /\ twice' \in {twice, twice \cup {<<s, x[1]>>}}
        /\ twice' # twice => x \in credited[s] /\ x \notin recorded[s]
    BY <2>1 DEF Fresh
  <2>5. StratumTypeOK'
    <3>1. /\ inflight' = [inflight EXCEPT ![s] = {}]
          /\ recorded' = [recorded EXCEPT ![s] = @ \cup {x}]
          /\ UNCHANGED <<makerVars, poolVars, sessionVars>>
      BY <2>1
    <3>2. /\ inflight' \in [Session -> SUBSET (Nat \X Share)]
          /\ recorded' \in [Session -> SUBSET (Nat \X Share)]
      BY <3>1, <2>2 DEF StratumTypeOK
    <3>3. credited' \in [Session -> SUBSET (Nat \X Share)]
      <4>1. credited \in [Session -> SUBSET (Nat \X Share)]
        BY DEF StratumTypeOK
      <4>2. [credited EXCEPT ![s] = @ \cup {x}] \in [Session -> SUBSET (Nat \X Share)]
        BY <2>2, <4>1
      <4> QED BY <2>3, <4>1, <4>2
    <3>4. twice' \subseteq Session \X Nat
      BY <2>2, <2>4 DEF StratumTypeOK
    <3> QED BY <3>1, <3>2, <3>3, <3>4 DEF StratumTypeOK, makerVars, poolVars, sessionVars
  <2>6. Newest' = Newest /\ Published' = Published
    BY <2>1 DEF Newest, Published, makerVars
  <2>7. JobNumbers'
    <3>1. ASSUME NEW t \in Session, NEW y \in recorded'[t] \cup inflight'[t] \cup credited'[t]
          PROVE  y[1] <= Published
      BY <2>1, <2>2, <2>3 DEF JobNumbers, StratumTypeOK
    <3>2. \A y \in twice' : y[2] <= Published
      BY <2>2, <2>4 DEF JobNumbers
    <3> QED BY <2>1, <2>6, <3>1, <3>2 DEF JobNumbers, makerVars, poolVars
  <2>8. CreditMemory'
    BY <2>1, <2>3 DEF CreditMemory, StratumTypeOK, poolVars
  <2>9. CreditOnce'
    BY <2>1, <2>4 DEF CreditOnce, CreditMemory, poolVars
  <2>10. StraysBounded'
    BY <2>1 DEF StraysBounded, StratumTypeOK, poolVars, sessionVars
  <2>11. NotifyProgress'
    BY <2>1 DEF NotifyProgress, makerVars, poolVars, sessionVars
  <2> QED BY <2>5, <2>7, <2>8, <2>9, <2>10, <2>11
<1>14. ASSUME NEW s \in Session, Disconnect(s) PROVE StratumIInv'
  <2>1. /\ s \in connected /\ inflight[s] = {}
        /\ connected' = connected \ {s} /\ subscribed' = subscribed \ {s} /\ pending' = pending \ {s}
        /\ notified' = [notified EXCEPT ![s] = 0]
        /\ recorded' = [recorded EXCEPT ![s] = {}] /\ credited' = [credited EXCEPT ![s] = {}]
        /\ UNCHANGED <<makerVars, current, order, inflight, twice>>
    BY <1>14 DEF Disconnect, Reading
  <2>2. current \in Nat /\ Newest' = Newest /\ Published' = Published
    BY <1>n, <2>1 DEF JobNumbers, Newest, Published, makerVars
  <2>3. StratumTypeOK'
    BY <2>1 DEF StratumTypeOK, makerVars
  <2>4. JobNumbers' /\ CreditMemory' /\ CreditOnce'
    BY <2>1, <2>2 DEF JobNumbers, CreditMemory, CreditOnce, StratumTypeOK, makerVars
  <2>5. StraysBounded'
    BY <2>1 DEF StraysBounded, StratumTypeOK
  <2>6. NotifyProgress'
    BY <2>1, <2>2 DEF NotifyProgress, StratumTypeOK, makerVars
  <2> QED BY <2>3, <2>4, <2>5, <2>6
<1>15. ASSUME NEW s \in Session, Abandon(s) PROVE StratumIInv'
  <2>1. /\ UNCHANGED <<makerVars, poolVars, connected, notified, subscribed>>
        /\ UNCHANGED <<recorded, inflight, credited, twice>>
    BY <1>15 DEF Abandon, shareVars
  <2> QED BY <2>1, UnchangedIInv
<1>16. CASE UNCHANGED vars
  <2>1. /\ UNCHANGED <<makerVars, poolVars, connected, notified, subscribed>>
        /\ UNCHANGED <<recorded, inflight, credited, twice>>
    BY <1>16 DEF vars, sessionVars, shareVars
  <2> QED BY <2>1, UnchangedIInv
<1> QED BY <1>1, <1>2, <1>3, <1>4, <1>5, <1>6, <1>7, <1>8, <1>9, <1>10, <1>11, <1>12, <1>13, <1>14, <1>15, <1>16
        DEF StratumNext, Broadcaster, SessionStep

-----------------------------------------------------------------------------

\* The invariant holds throughout, whatever the window, the shares and the order
\* in which the broadcaster, the sessions and the ingestion task take their steps.
THEOREM StratumInvariant == StratumSpec => []StratumIInv
BY StratumInitial, StratumStep, PTL DEF StratumSpec

\* No share is credited twice while its job is in the window, although a
\* submission looks its job up and records its share in two steps between which
\* broadcast_job may evict the job and prune the shares (server.rs).
THEOREM SharesCreditedOnce == StratumSpec => []CreditOnce
BY StratumInvariant, PTL DEF StratumIInv

\* submitted_shares of a session stays bounded: of the jobs that left the window
\* it holds one share at most, the one being handled when its job was evicted.
THEOREM ShareMemoryStaysBounded == StratumSpec => []ShareMemoryBounded
<1>1. StratumIInv => ShareMemoryBounded
  <2> SUFFICES ASSUME StratumIInv, NEW s \in connected
               PROVE  Cardinality({x \in recorded[s] : x[1] \notin ToSet(order) /\ x[1] < current}) <= 1
    BY DEF ShareMemoryBounded
  <2> DEFINE T == {x \in recorded[s] : x[1] \notin ToSet(order) /\ x[1] < current}
  <2>1. \A x, y \in T : x = y
    BY DEF StratumIInv, StraysBounded, StratumTypeOK
  <2>2. CASE T = {}
    BY <2>2, FS_EmptySet
  <2>3. CASE T # {}
    <3>1. PICK x : T = {x}
      BY <2>1, <2>3
    <3> QED BY <3>1, FS_Singleton
  <2> QED BY <2>2, <2>3
<1> QED BY <1>1, StratumInvariant, PTL

\* Whenever the broadcaster rests, every subscribed worker has the current job,
\* however its subscription fell between current_job and the list of sessions
\* that broadcast_job notifies.
THEOREM WorkersFollowJob == StratumSpec => []WorkersOnCurrentJob
<1>1. StratumIInv => WorkersOnCurrentJob
  BY DEF StratumIInv, NotifyProgress, WorkersOnCurrentJob
<1> QED BY <1>1, StratumInvariant, PTL

-----------------------------------------------------------------------------
(***************************************************************************)
(* What becomes of a candidate.                                            *)
(***************************************************************************)

\* What a job is once it is published: unless the tip was moving on while it
\* was made, its root is the one of the block a worker makes of it.
LawfulJob(i) ==
  LET j == job[i]
  IN /\ j = [prev |-> j.prev, others |-> j.others, branches |-> j.branches, root |-> j.root]
     /\ j.prev \in Nat /\ j.prev <= tip
     /\ j.others \in Nat
     /\ j.branches = MerkleBranches(OtherTxs(j.others))
     /\ j.root[3] = j.others
     /\ \/ i = Newest /\ maker.at = "root"
        \/ j.prev # tip
        \/ j.root = UtxoRoot(j.prev, Coinbase(j.prev, 0), j.others)

CandidateIInv ==
  /\ tip \in Nat
  /\ \A i \in 1 .. Newest : LawfulJob(i)
  /\ \A j \in ToSet(order) : j > 0
  /\ \A s \in Session : \A x \in inflight[s] : x[1] > 0
  /\ \A x \in ToSet(events) : x[1] \in Nat \ {0}
  /\ events \in Seq(ToSet(events))
  /\ maker.at = "current" => Newest \in cache
  /\ maker.at # "current" /\ current > 0 => current \in cache

\* The Merkle root of a job with one branch (build_merkle_root).
LEMMA OneBranch ==
  ASSUME NEW j, NEW e, NEW b, j.branches = <<b>>
  PROVE  BuildMerkleRoot(j, e) =
           Hash(IF b = ZeroHash THEN <<Coinbase(j.prev, e)>> ELSE <<Coinbase(j.prev, e), b>>)
<1> DEFINE h       == Coinbase(j.prev, e)
           Up(x)   == Hash(IF b = ZeroHash THEN <<x>> ELSE <<x, b>>)
           F(f, s) == IF s = {} THEN h
                      ELSE Hash(IF <<b>>[Max(s)] = ZeroHash THEN <<f[s \ {Max(s)}]>>
                                ELSE <<f[s \ {Max(s)}], <<b>>[Max(s)]>>)
           G       == [s \in SUBSET {1} |-> IF s = {} THEN h ELSE Up(h)]
           iter    == CHOOSE f : f = [s \in SUBSET {1} |-> F(f, s)]
<1>1. Max({1}) = 1
  BY DEF Max
<1>2. G = [s \in SUBSET {1} |-> F(G, s)]
  <2>1. ASSUME NEW s \in SUBSET {1} PROVE G[s] = F(G, s)
    <3>1. CASE s = {}
      BY <3>1
    <3>2. CASE s = {1}
      BY <3>2, <1>1
    <3> QED BY <3>1, <3>2
  <2> HIDE DEF F
  <2> QED BY <2>1
<1>3. iter = [s \in SUBSET {1} |-> F(iter, s)]
  <2> HIDE DEF F, G
  <2> QED BY <1>2
<1>4. iter[{1}] = F(iter, {1}) /\ iter[{}] = F(iter, {})
  <2> HIDE DEF F, iter
  <2> QED BY <1>3
<1>5. iter[{1}] = Up(h)
  <2> HIDE DEF iter
  <2> QED BY <1>4, <1>1
<1>6. DOMAIN <<b>> = {1}
  OBVIOUS
<1>7. BuildMerkleRoot(j, e) = iter[{1}]
  BY <1>6 DEF BuildMerkleRoot, FoldLeft, MapThenFoldSet
<1> QED BY <1>5, <1>7

\* A job of at most one transaction hands its workers the branches of which they
\* build the commitment of the block.
LEMMA SmallJobMatches ==
  ASSUME NEW j, j.others \in Nat, j.others <= 1, j.branches = MerkleBranches(OtherTxs(j.others)),
         NEW e
  PROVE  BuildMerkleRoot(j, e) = Commitment(<<Coinbase(j.prev, e)>> \o OtherTxs(j.others))
<1> DEFINE cb == Coinbase(j.prev, e)
<1> HIDE DEF cb
<1>1. CASE j.others = 0
  <2>1. OtherTxs(0) = << >> /\ Len(OtherTxs(0)) = 0
    BY DEF OtherTxs
  <2>2. j.branches = <<ZeroHash>>
    BY <1>1, <2>1 DEF MerkleBranches
  <2>3. <<cb>> \o OtherTxs(0) = <<cb>>
    <3>1. <<cb>> \in Seq({cb})
      OBVIOUS
    <3> QED BY <2>1, <3>1, ConcatEmptySeq
  <2> QED BY <1>1, <2>2, <2>3, OneBranch DEF Commitment, cb
<1>2. CASE j.others = 1
  <2>1. OtherTxs(1) = << <<2, 1>> >> /\ Len(OtherTxs(1)) = 1
    BY DEF OtherTxs
  <2>2. j.branches = << <<2, 1>> >>
    BY <1>2, <2>1 DEF MerkleBranches
  <2>3. <<cb>> \o OtherTxs(1) = <<cb, <<2, 1>> >>
    <3> DEFINE o == <<2, 1>>
               S == {cb, o}
    <3> HIDE DEF o
    <3>1. <<cb>> \in Seq(S) /\ <<o>> \in Seq(S) /\ <<cb, o>> \in Seq(S)
      OBVIOUS
    <3>2. Append(<<cb>>, o) = <<cb>> \o <<o>>
      BY <3>1, AppendIsConcat
    <3>3. Append(<<cb>>, o) = <<cb, o>>
      <4> DEFINE a == Append(<<cb>>, o)
      <4>1. a \in Seq(S) /\ Len(a) = 2 /\ a[1] = cb /\ a[2] = o
        BY <3>1, AppendProperties
      <4>2. Len(<<cb, o>>) = 2 /\ \A i \in 1 .. 2 : a[i] = <<cb, o>>[i]
        BY <4>1
      <4> HIDE DEF a, S
      <4>3. a = <<cb, o>>
        BY <3>1, <4>1, <4>2, SeqEqual
      <4> QED BY <4>3 DEF a
    <3> QED BY <2>1, <3>2, <3>3 DEF o
  <2>4. <<2, 1>> # ZeroHash
    BY DEF ZeroHash
  <2> QED BY <1>2, <2>2, <2>3, <2>4, OneBranch DEF Commitment, cb
<1> QED BY <1>1, <1>2

\* No candidate is on its way when the server starts.
LEMMA CandidateInitial == StratumInit => CandidateIInv
<1>1. ToSet(<< >>) = {} /\ Len(<< >>) = 0 /\ << >> \in Seq({})
  BY EmptySeq DEF ToSet
<1> QED BY <1>1 DEF StratumInit, CandidateIInv, Newest

\* A job stays lawful when the tip moves on, and when other parts move.
LEMMA LawfulKept ==
  ASSUME CandidateIInv, job' = job, tip' \in Nat, tip' >= tip, maker.at = "root" => maker'.at = "root",
         NEW i \in 1 .. Newest
  PROVE  LawfulJob(i)'
<1>1. LawfulJob(i) /\ tip \in Nat
  BY DEF CandidateIInv
<1> QED BY <1>1 DEF LawfulJob, Newest

\* Every task of the server keeps the invariant of the candidates.
LEMMA CandidateStep == StratumIInv /\ CandidateIInv /\ [StratumNext]_vars => CandidateIInv'
<1> SUFFICES ASSUME StratumIInv, CandidateIInv, [StratumNext]_vars PROVE CandidateIInv'
  OBVIOUS
<1>n. Newest \in Nat /\ tip \in Nat
  BY LenProperties DEF StratumIInv, StratumTypeOK, Newest, CandidateIInv
<1>1. CASE TipMoves
  <2>1. tip' = tip + 1 /\ UNCHANGED <<makerVars, poolVars, sessionVars, shareVars>>
    BY <1>1 DEF TipMoves
  <2>2. \A i \in 1 .. Newest : LawfulJob(i)'
    BY <1>n, <2>1, LawfulKept DEF makerVars
  <2> QED BY <1>n, <2>1, <2>2 DEF CandidateIInv, Newest, makerVars, poolVars, shareVars
<1>2. CASE Ingest
  <2>1. /\ tip' \in {tip, tip + 1} /\ events # << >> /\ events' = Tail(events)
        /\ UNCHANGED <<makerVars, poolVars, sessionVars, inflight>>
    BY <1>2 DEF Ingest
  <2>2. \A i \in 1 .. Newest : LawfulJob(i)'
    BY <1>n, <2>1, LawfulKept DEF makerVars
  <2>3. Tail(events) \in Seq(ToSet(events))
    BY <2>1, HeadTailProperties DEF CandidateIInv
  <2>4. ToSet(Tail(events)) \subseteq ToSet(events)
    BY <2>3, LenProperties DEF ToSet
  <2>5. events' \in Seq(ToSet(events')) /\ ToSet(events') \subseteq ToSet(events)
    BY <2>1, <2>3, <2>4, SeqOfToSet
  <2> QED BY <1>n, <2>1, <2>2, <2>5 DEF CandidateIInv, Newest, makerVars, poolVars
<1>3. CASE Tick \/ TemplateFails \/ Shutdown \/ EndBroadcast
  <2>1. /\ maker.at \in {"idle", "build", "notify"} /\ maker'.at \in {"idle", "build", "stopped"}
        /\ UNCHANGED <<tip, job, cache, poolVars, shareVars>>
    BY <1>3 DEF Tick, TemplateFails, Shutdown, EndBroadcast, At, StratumIInv, StratumTypeOK
  <2>2. \A i \in 1 .. Newest : LawfulJob(i)'
    BY <1>n, <2>1, LawfulKept
  <2> QED BY <1>n, <2>1, <2>2 DEF CandidateIInv, Newest, poolVars, shareVars
<1>4. CASE BuildTemplate
  <2>1. PICK n \in 0 .. MaxOthers :
          job' = Append(job, [prev |-> tip, others |-> n, branches |-> MerkleBranches(OtherTxs(n)),
                              root |-> UtxoRoot(tip, << >>, n)])
    BY <1>4 DEF BuildTemplate
  <2>2. /\ maker.at = "build" /\ maker'.at = "root"
        /\ UNCHANGED <<tip, cache, poolVars, shareVars>>
    BY <1>4 DEF BuildTemplate, At, StratumIInv, StratumTypeOK
  <2> DEFINE j == [prev |-> tip, others |-> n, branches |-> MerkleBranches(OtherTxs(n)),
                   root |-> UtxoRoot(tip, << >>, n)]
  <2>3. Newest' = Newest + 1 /\ job'[Newest + 1] = j /\ \A i \in 1 .. Newest : job'[i] = job[i]
    <3>1. job \in Seq(ToSet(job) \cup {j})
      BY SeqMonotonic DEF StratumIInv, StratumTypeOK
    <3> HIDE DEF j
    <3> QED BY <2>1, <3>1, AppendProperties DEF Newest, j
  <2>4. ASSUME NEW i \in 1 .. Newest' PROVE LawfulJob(i)'
    <3>1. CASE i = Newest + 1
      <4>1. n \in Nat /\ job'[i] = j
        BY <2>3, <3>1, StratumAssumption
      <4> QED BY <1>n, <2>2, <2>3, <3>1, <4>1 DEF LawfulJob, UtxoRoot
    <3>2. CASE i \in 1 .. Newest
      BY <1>n, <2>2, <2>3, <3>2 DEF CandidateIInv, LawfulJob
    <3> QED BY <1>n, <2>3, <3>1, <3>2
  <2>5. current > 0 => current \in cache
    BY <2>2 DEF CandidateIInv
  <2> QED BY <1>n, <2>2, <2>4, <2>5 DEF CandidateIInv, poolVars, shareVars
<1>5. CASE TakeRoot
  <2>1. /\ maker.at = "root" /\ maker'.at = "cache"
        /\ UNCHANGED <<tip, cache, poolVars, shareVars>>
        /\ \/ job' = [job EXCEPT ![Newest] = Recomputed]
           \/ tip # job[Newest].prev /\ job' = job
    BY <1>5 DEF TakeRoot, At, StratumIInv, StratumTypeOK
  <2>2. Newest > 0 /\ LawfulJob(Newest)
    BY <1>n, <2>1 DEF StratumIInv, JobNumbers, CandidateIInv
  <2>3. Newest' = Newest /\ \A i \in 1 .. Newest : i # Newest => job'[i] = job[i]
    <3>1. DOMAIN job = 1 .. Newest
      BY LenProperties DEF StratumIInv, StratumTypeOK, Newest
    <3> QED BY <1>n, <2>1, <2>2, <3>1, JobReplaced DEF StratumIInv, StratumTypeOK, Newest
  <2>4. LawfulJob(Newest)'
    <3>1. CASE job' = [job EXCEPT ![Newest] = Recomputed]
      <4> DEFINE j == job[Newest]
      <4>1. job'[Newest] = Recomputed
        BY <1>n, <2>2, <3>1, LenProperties DEF StratumIInv, StratumTypeOK, Newest
      <4>2. Recomputed = [prev |-> j.prev, others |-> j.others, branches |-> j.branches,
                          root |-> UtxoRoot(tip, Coinbase(j.prev, 0), j.others)]
        BY <2>2 DEF LawfulJob, Recomputed
      <4> QED BY <2>1, <2>2, <2>3, <4>1, <4>2 DEF LawfulJob, UtxoRoot
    <3>2. CASE tip # job[Newest].prev /\ job' = job
      BY <2>1, <2>2, <2>3, <3>2 DEF LawfulJob
    <3> QED BY <2>1, <3>1, <3>2
  <2>5. ASSUME NEW i \in 1 .. Newest, i # Newest PROVE LawfulJob(i)'
    BY <1>n, <2>1, <2>3, <2>5 DEF CandidateIInv, LawfulJob
  <2>6. \A i \in 1 .. Newest' : LawfulJob(i)'
    BY <2>3, <2>4, <2>5
  <2> QED BY <1>n, <2>1, <2>3, <2>6 DEF CandidateIInv, poolVars, shareVars
<1>6. CASE CacheJob
  <2>1. /\ maker.at = "cache" /\ maker'.at = "current" /\ cache' = Cached
        /\ UNCHANGED <<tip, job, poolVars, shareVars>>
    BY <1>6 DEF CacheJob, At, StratumIInv, StratumTypeOK
  <2>2. \A i \in 1 .. Newest : LawfulJob(i)'
    BY <1>n, <2>1, LawfulKept
  <2> QED BY <1>n, <2>1, <2>2 DEF CandidateIInv, Cached, Newest, poolVars, shareVars
<1>7. CASE SetCurrent
  <2>1. /\ maker.at = "current" /\ maker'.at = "enqueue" /\ current' = Newest
        /\ UNCHANGED <<tip, job, cache, order, shareVars>>
    BY <1>7 DEF SetCurrent, At, StratumIInv, StratumTypeOK
  <2>2. \A i \in 1 .. Newest : LawfulJob(i)'
    BY <1>n, <2>1, LawfulKept
  <2> QED BY <1>n, <2>1, <2>2 DEF CandidateIInv, Newest, shareVars
<1>8. CASE Enqueue
  <2>1. /\ maker.at = "enqueue" /\ maker'.at = "notify" /\ order' = Window(Append(order, Newest))
        /\ UNCHANGED <<tip, job, cache, current, inflight, events>>
    BY <1>8 DEF Enqueue, At, StratumIInv, StratumTypeOK
  <2>2. \A i \in 1 .. Newest : LawfulJob(i)'
    BY <1>n, <2>1, LawfulKept
  <2>3. \A j \in ToSet(order') : j > 0
    BY <1>n, <2>1, WindowMoves DEF StratumIInv, StratumTypeOK, JobNumbers, CandidateIInv
  <2> QED BY <1>n, <2>1, <2>2, <2>3 DEF CandidateIInv, Newest
<1>9. ASSUME NEW s \in Session, Notify(s) \/ Connect(s) \/ Subscribe(s) \/ Disconnect(s) \/ Abandon(s)
      PROVE  CandidateIInv'
  <2>1. UNCHANGED <<tip, makerVars, current, order, inflight, events>>
    BY <1>9 DEF Notify, Connect, Subscribe, Disconnect, Abandon, poolVars, shareVars
  <2>2. \A i \in 1 .. Newest : LawfulJob(i)'
    BY <1>n, <2>1, LawfulKept DEF makerVars
  <2> QED BY <1>n, <2>1, <2>2 DEF CandidateIInv, Newest, makerVars
<1>10. ASSUME NEW s \in Session, FindJob(s) PROVE CandidateIInv'
  <2>1. PICK j \in ToSet(order), h \in Share : inflight' = [inflight EXCEPT ![s] = {<<j, h>>}]
    BY <1>10 DEF FindJob
  <2>2. UNCHANGED <<tip, makerVars, poolVars, events>>
    BY <1>10 DEF FindJob
  <2>3. \A i \in 1 .. Newest : LawfulJob(i)'
    BY <1>n, <2>2, LawfulKept DEF makerVars
  <2>4. \A t \in Session : \A x \in inflight'[t] : x[1] > 0
    BY <2>1 DEF CandidateIInv, StratumIInv, StratumTypeOK
  <2> QED BY <1>n, <2>2, <2>3, <2>4 DEF CandidateIInv, Newest, makerVars, poolVars
<1>11. ASSUME NEW s \in Session, RecordShare(s) PROVE CandidateIInv'
  <2>0. PICK share \in inflight[s], time \in Time :
          /\ inflight' = [inflight EXCEPT ![s] = {}]
          /\ events' \in {events, Append(events, <<share[1], share[2], time>>)}
          /\ UNCHANGED <<tip, makerVars, poolVars>>
    BY <1>11 DEF RecordShare
  <2>1. PICK x : x = <<share[1], share[2], time>>
    OBVIOUS
  <2>2. x[1] \in Nat \ {0}
    BY <2>1 DEF CandidateIInv, StratumIInv, StratumTypeOK
  <2>3. \A i \in 1 .. Newest : LawfulJob(i)'
    BY <1>n, <2>0, LawfulKept DEF makerVars
  <2>4. \A t \in Session : \A y \in inflight'[t] : y[1] > 0
    BY <2>0 DEF CandidateIInv, StratumIInv, StratumTypeOK
  <2>5. /\ Append(events, x) \in Seq(ToSet(Append(events, x)))
        /\ ToSet(Append(events, x)) \subseteq ToSet(events) \cup {x}
    <3> DEFINE S == ToSet(events) \cup {x}
    <3>1. events \in Seq(S)
      BY SeqMonotonic DEF CandidateIInv
    <3>2. Append(events, x) \in Seq(S)
      BY <3>1, AppendProperties
    <3>3. ToSet(Append(events, x)) \subseteq S
      BY <3>2, LenProperties DEF ToSet
    <3> QED BY <3>2, <3>3, SeqOfToSet
  <2>6. events' \in Seq(ToSet(events')) /\ ToSet(events') \subseteq ToSet(events) \cup {x}
    BY <2>0, <2>1, <2>5 DEF CandidateIInv
  <2> QED BY <1>n, <2>0, <2>2, <2>3, <2>4, <2>6 DEF CandidateIInv, Newest, makerVars, poolVars
<1>12. CASE UNCHANGED vars
  <2>1. UNCHANGED <<tip, makerVars, poolVars, shareVars>>
    BY <1>12 DEF vars
  <2>2. \A i \in 1 .. Newest : LawfulJob(i)'
    BY <1>n, <2>1, LawfulKept DEF makerVars
  <2> QED BY <1>n, <2>1, <2>2 DEF CandidateIInv, Newest, makerVars, poolVars, shareVars
<1> QED BY <1>1, <1>2, <1>3, <1>4, <1>5, <1>6, <1>7, <1>8, <1>9, <1>10, <1>11, <1>12
        DEF StratumNext, Broadcaster, SessionStep

\* A candidate for the current job, with a header the node accepts and of a
\* worker that left extranonce2 at zero, connects as long as the tip is its
\* parent and the job has at most one transaction: the cache has not dropped the job, and the root, taken from a
\* UTXO set read after the template, is the right one (stratum_service.rs).
THEOREM ZeroNonceCandidates == StratumSpec => []ZeroNonceConnects
<1>1. StratumIInv /\ CandidateIInv => ZeroNonceConnects
  <2> SUFFICES ASSUME StratumIInv, CandidateIInv, NEW x \in ToSet(events),
                      x[1] = current, maker.at # "current", job[x[1]].prev = tip, tip < MaxTip,
                      HeaderAccepted(x), En2[x[2]] = 0, job[x[1]].others <= 1
               PROVE  Fate(x) = "connected"
    BY DEF ZeroNonceConnects
  <2> DEFINE j == job[x[1]]
  <2>1. Newest \in Nat
    BY LenProperties DEF StratumIInv, StratumTypeOK, Newest
  <2>2. /\ current \in 1 .. Newest /\ current \in cache
        /\ ~ (current = Newest /\ maker.at = "root")
    BY <2>1 DEF CandidateIInv, StratumIInv, JobNumbers, Published
  <2>3. LawfulJob(x[1])
    BY <2>2 DEF CandidateIInv
  <2>4. BuildMerkleRoot(j, 0) = Commitment(<<Coinbase(j.prev, 0)>> \o OtherTxs(j.others))
    BY <2>3, SmallJobMatches DEF LawfulJob
  <2>5. j.root = UtxoRoot(j.prev, Coinbase(j.prev, 0), j.others)
    BY <2>2, <2>3 DEF LawfulJob
  <2>6. Accepted(x)
    BY <2>4, <2>5 DEF Accepted, CommitmentMatches, UtxoRootMatches
  <2> QED BY <2>2, <2>6 DEF Fate
<1>2. StratumSpec => []CandidateIInv
  BY CandidateInitial, CandidateStep, StratumInvariant, PTL DEF StratumSpec
<1> QED BY <1>1, <1>2, StratumInvariant, PTL
=============================================================================
