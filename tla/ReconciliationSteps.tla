--------------------------- MODULE ReconciliationSteps ----------------------------
(***************************************************************************)
(* The first half of the proofs about ProceduralReconciliation: the         *)
(* inductive invariant, what each step does to the variables, and the       *)
(* conjuncts about types, jobs, claims, plans and epochs.                   *)
(* ReconciliationProofs has the other conjuncts and the theorems.           *)
(*                                                                         *)
(* The argument.  A producer's authority changes only together with a new   *)
(* epoch, so what is permitted is constant within an epoch; and the step    *)
(* that opens an epoch raises the state revision of the job of the old one, *)
(* so a page planned in an older epoch no longer holds its claim.  Hence    *)
(* every proof in the checkpoint of the current epoch was made for what is  *)
(* permitted now.  Feedback may be planned in one epoch and committed in a  *)
(* later one: there the pins of the sources it read decide.                 *)
(***************************************************************************)
EXTENDS ProceduralReconciliation, WellFoundedInduction, TLAPS

Busy(w) == worker[w].pc \notin {"absent", "idle"}
Working(w) == worker[w].pc \in {"claimed", "planned", "failed"}
Current == jobs[root.epoch].ckpt

(* The root and the jobs of the epochs, those to come included. *)
EpochsClose ==
    /\ RootClosesJob /\ (root.epoch = 1 => root.state = "Ready")
    /\ \A e \in Epoch : e > root.epoch => jobs[e].status = "Absent"

(* A claim is the newest state of its job or it is lost for ever. *)
ClaimOK(w) ==
    /\ Busy(w) => worker[w].job \in Job /\ jobs[worker[w].job].status # "Absent"
    /\ Working(w) => /\ worker[w].rev <= jobs[worker[w].job].rev
                     /\ Holds(w) => jobs[worker[w].job].status = "Leased"
    /\ worker[w].pc = "failed" /\ worker[w].err = "AuthorityDenied" => worker[w].job \in Source
ClaimsAreExact == \A w \in Worker : ClaimOK(w)

(* What a worker read before its commit is still so, or the commit sees it. *)
PlanOK(w) ==
    LET r == worker[w].read
        j == worker[w].job
    IN  /\ r.tools \in [Tool -> Nat]
        /\ \A s \in DOMAIN r.src : /\ r.src[s] <= pin[s]
                                   /\ r.src[s] = pin[s] => (s \in r.permitted <=> s \in Permitted)
        /\ j \in Epoch /\ Holds(w) => r.permitted = Permitted
        /\ j \in Source => \A t \in Feeds[j] :
              /\ r.tools[t] <= Len(tools[t])
              /\ r.tools[t] > 0 => tools[t][r.tools[t]] \subseteq DOMAIN r.src
PlansAreFenced == \A w \in Worker : worker[w].pc = "planned" => PlanOK(w)

(* The ledger says which feedback the revisions hold, and in which epoch it  *)
(* was applied.                                                              *)
LedgerIsExact ==
    /\ \A s \in Source :
         /\ ledger[s].epoch <= root.epoch
         /\ ledger[s].epoch > 0 <=> jobs[s].status = "Succeeded"
         /\ ledger[s].epoch = root.epoch =>
              \A t \in DOMAIN ledger[s].at :
                 ledger[s].at[t] \in 1 .. Len(tools[t]) /\ tools[t][ledger[s].at[t]] \subseteq Permitted
    /\ \A t \in Tool, s \in Source : s \in Evidence(t) <=> ledger[s].epoch > 0 /\ t \in Feeds[s]

(* A checkpoint lists every revision of the tools up to its cursor. *)
Lists(c, t, i) == \E v \in BOOLEAN : [at |-> <<t, i>>, visible |-> v] \in c.verified
Shows(c, t, i) == [at |-> <<t, i>>, visible |-> TRUE] \in c.verified
Covers(c) ==
    \A t \in Tool, i \in Nat : Lists(c, t, i) <=> t <= c.cursor /\ i \in 1 .. c.tools[t]

CheckpointsCover ==
    \A e \in Epoch : /\ jobs[e].ckpt.cursor > 0 => jobs[e].ckpt.tools \in [Tool -> Nat]
                     /\ Covers(jobs[e].ckpt)

(* What the current scan proved is what is permitted. *)
ProofsAreTrue ==
    root.epoch > 1 =>
        /\ Current.cursor > 0 => \A t \in Tool : Current.tools[t] <= Len(tools[t])
        /\ \A t \in Tool, i \in Nat :
              Shows(Current, t, i) => tools[t][i] \subseteq Permitted

(* ... and each tool it has passed is whole. *)
ScannedIsComplete ==
    root.epoch > 1 /\ root.state = "Reconciling" =>
        \A t \in Tool :
            /\ tools[t] # <<>> /\ t <= Current.cursor /\ Current.tools[t] = Len(tools[t])
            => /\ Shows(Current, t, Len(tools[t]))
               /\ Last(tools[t]) = Evidence(t) \cap Permitted

IInv ==
    /\ TypeOK /\ EpochsClose /\ ClaimsAreExact /\ PlansAreFenced /\ LedgerIsExact
    /\ CheckpointsCover /\ ProofsAreTrue /\ ScannedIsComplete /\ ReadyIsComplete

---------------------------------------------------------------------------
(* The numbers of tools and epochs; a source is neither an epoch nor 0. *)
LEMMA Constants ==
    /\ NTools \in Nat /\ NTools >= 1 /\ MaxEpoch \in Nat /\ MaxAttempts \in Nat /\ MaxAttempts >= 1
    /\ \A e \in Epoch : e \in Nat /\ e >= 2 /\ e <= MaxEpoch /\ e \notin Source
    /\ \A t \in Tool : t \in Nat /\ t >= 1 /\ t <= NTools
    /\ Complete \in Nat /\ Skills \in Nat /\ Complete = NTools + 2 /\ Skills = NTools + 1
    /\ \A s \in Source : Feeds[s] \in SUBSET Tool
  BY ReconciliationAssumption DEF Epoch, Tool, Complete, Skills

(* The empty record of pins, of applications and of tools. *)
LEMMA EmptyShapes == <<>> \in Pinned /\ <<>> \in Applied /\ <<>> \in Manifests
  <1>1. <<>> \in [{} -> Nat]
    OBVIOUS
  <1> QED
    BY <1>1 DEF Pinned, Applied, Manifests

(* The records that stand for nothing. *)
LEMMA Shapes ==
    /\ NoCkpt \in Checkpoint /\ NoRead \in Read
    /\ Absent \in JobRecord /\ Idle \in WorkerRecord
    /\ [Idle EXCEPT !.pc = "absent"] \in WorkerRecord
    /\ NoTarget \in [job : Epoch \cup {0}, rev : Nat]
  <1>1. NoCkpt \in Checkpoint
    BY EmptyShapes, Constants DEF NoCkpt, Checkpoint
  <1>2. NoRead \in Read
    BY EmptyShapes DEF NoRead, Read
  <1>3. Absent \in JobRecord
    BY <1>1, Constants DEF Absent, JobRecord
  <1>4. Idle \in WorkerRecord /\ [Idle EXCEPT !.pc = "absent"] \in WorkerRecord
    BY <1>2 DEF Idle, WorkerRecord
  <1>5. NoTarget \in [job : Epoch \cup {0}, rev : Nat]
    BY DEF NoTarget
  <1> QED
    BY <1>1, <1>2, <1>3, <1>4, <1>5

(* The pins of a set of sources. *)
LEMMA PinsShape ==
    ASSUME TypeOK, NEW S \in SUBSET Source
    PROVE  Pins(S) \in Pinned /\ DOMAIN Pins(S) = S
  BY DEF TypeOK, Pins, Pinned

(* The manifest of the tools. *)
LEMMA ManifestShape == TypeOK => Manifest \in [Tool -> Nat] /\ Manifest \in Manifests
  BY DEF TypeOK, Manifest, Manifests

(* The evidence of a tool, element by element, and what an appended revision  *)
(* adds to it.                                                               *)
LEMMA EvidenceElements ==
    ASSUME TypeOK, NEW t \in Tool
    PROVE  /\ Evidence(t) \subseteq Source
           /\ \A s : s \in Evidence(t) <=> \E i \in 1 .. Len(tools[t]) : s \in tools[t][i]
  <1>1. tools[t] \in Seq(SUBSET Source)
    BY DEF TypeOK
  <1>2. \A s : s \in Evidence(t) <=> \E i \in 1 .. Len(tools[t]) : s \in tools[t][i]
    BY <1>1 DEF Evidence, Range
  <1>3. \A i \in 1 .. Len(tools[t]) : tools[t][i] \subseteq Source
    BY <1>1
  <1> QED
    BY <1>2, <1>3

(* The evidence of a tool with one more revision. *)
LEMMA AppendEvidence ==
    ASSUME NEW s \in Seq(SUBSET Source), NEW x \in SUBSET Source
    PROVE  /\ Append(s, x) \in Seq(SUBSET Source) /\ Len(Append(s, x)) = Len(s) + 1
           /\ Append(s, x)[Len(s) + 1] = x
           /\ \A i \in 1 .. Len(s) : Append(s, x)[i] = s[i]
           /\ UNION Range(Append(s, x)) = (UNION Range(s)) \cup x
  <1>1. /\ Append(s, x) \in Seq(SUBSET Source) /\ Len(Append(s, x)) = Len(s) + 1
        /\ Append(s, x)[Len(s) + 1] = x
        /\ \A i \in 1 .. Len(s) : Append(s, x)[i] = s[i]
    OBVIOUS
  <1>2. \A y : y \in UNION Range(s) <=> \E i \in 1 .. Len(s) : y \in s[i]
    BY DEF Range
  <1>3. \A y : y \in UNION Range(Append(s, x)) <=> \E i \in 1 .. Len(s) + 1 : y \in Append(s, x)[i]
    BY <1>1 DEF Range
  <1>4. \A y : (\E i \in 1 .. Len(s) + 1 : y \in Append(s, x)[i])
                 <=> (\E i \in 1 .. Len(s) : y \in s[i]) \/ y \in x
    BY <1>1
  <1> QED
    BY Zenon, <1>1, <1>2, <1>3, <1>4

---------------------------------------------------------------------------
(* Types. *)
LEMMA InitType == Init => TypeOK
  <1> SUFFICES ASSUME Init PROVE TypeOK
    OBVIOUS
  <1>1. PICK e \in Environment :
         /\ producer = [s \in Source |-> IF s \in e.active THEN "active" ELSE "revoked"]
         /\ \E started \in {W \in SUBSET Worker : Cardinality(W) = e.workers} :
               worker = [w \in Worker |->
                           IF w \in started THEN Idle ELSE [Idle EXCEPT !.pc = "absent"]]
         /\ cap = e.cap /\ left = e.bound
    BY DEF Init
  <1>2. worker \in [Worker -> WorkerRecord]
    BY <1>1, Shapes
  <1>3. cap \in 1 .. Raised /\ left \in [Event -> Nat]
    BY <1>1, ReconciliationAssumption
  <1>4. producer \in [Source -> {"active", "narrowed", "revoked"}] /\ pin \in [Source -> Nat]
    BY <1>1 DEF Init
  <1>5. jobs \in [Job -> JobRecord] /\ asked \in [job : Epoch \cup {0}, rev : Nat] /\ line \in Seq(Job)
    BY Shapes DEF Init
  <1>6. ledger \in [Source -> [epoch : 0 .. MaxEpoch, at : Applied]]
    BY EmptyShapes, Constants DEF Init
  <1>7. root \in Root /\ tools \in [Tool -> Seq(SUBSET Source)]
    BY ReconciliationAssumption DEF Init, Root
  <1> QED
    BY <1>2, <1>3, <1>4, <1>5, <1>6, <1>7 DEF TypeOK

(* A body that is rebuilt or merged holds sources only. *)
LEMMA BodyShapes ==
    ASSUME TypeOK
    PROVE  /\ \A P : \A t \in Tool : Rebuilt(t, P) \in SUBSET Source
           /\ \A s \in Source, t \in Tool, r \in Read :
                 r.tools \in [Tool -> Nat] /\ r.tools[t] <= Len(tools[t]) => Merged(s, t, r) \in SUBSET Source
  <1>1. \A P : \A t \in Tool : Rebuilt(t, P) \in SUBSET Source
    BY EvidenceElements DEF Rebuilt, Reduced
  <1>2. ASSUME NEW s \in Source, NEW t \in Tool, NEW r \in Read,
               r.tools \in [Tool -> Nat], r.tools[t] <= Len(tools[t])
        PROVE  Merged(s, t, r) \in SUBSET Source
    <2>1. tools[t] \in Seq(SUBSET Source) /\ r.tools[t] \in Nat
      BY <1>2 DEF TypeOK
    <2>2. CASE r.tools[t] = 0
      BY <2>2 DEF Merged
    <2>3. CASE r.tools[t] # 0
      <3>1. tools[t][r.tools[t]] \in SUBSET Source
        BY <2>1, <2>3, <1>2
      <3> QED
        BY <3>1 DEF Merged, Reduced
    <2> QED
      BY <2>2, <2>3
  <1> QED
    BY <1>1, <1>2

(* The checkpoint an epoch starts from. *)
LEMMA CkptShapes ==
    ASSUME TypeOK, NEW e \in Epoch
    PROVE  /\ BeginCkpt \in Checkpoint /\ BeginCkpt.tools = Manifest
           /\ BeginCkpt.cursor = 0 /\ BeginCkpt.verified = {}
           /\ Ckpt(e) \in Checkpoint
           /\ [BeginCkpt EXCEPT !.root = root.rev + 1] \in Checkpoint
  <1>1. root.rev \in Nat
    BY DEF TypeOK, Root
  <1>2. /\ BeginCkpt \in Checkpoint /\ BeginCkpt.tools = Manifest
        /\ BeginCkpt.cursor = 0 /\ BeginCkpt.verified = {}
    BY Zenon, <1>1, Shapes, ManifestShape DEF BeginCkpt, NoCkpt, Checkpoint
  <1>3. jobs[e].ckpt \in Checkpoint
    BY DEF TypeOK, JobRecord, Job
  <1>4. [BeginCkpt EXCEPT !.root = root.rev + 1] \in Checkpoint
    BY <1>1, <1>2 DEF Checkpoint
  <1> QED
    BY <1>2, <1>3, <1>4 DEF Ckpt

(* A set of natural numbers has a least element. *)
LEMMA LeastElement ==
    ASSUME NEW T \in SUBSET Nat, T # {}
    PROVE  \E x \in T : \A y \in T : x <= y
  <1>1. OpToRel(<, Nat) = {ss \in Nat \X Nat : ss[1] < ss[2]}
    BY DEF OpToRel
  <1>2. PICK x \in T : \A y \in T : ~(<<y, x>> \in OpToRel(<, Nat))
    BY Zenon, NatLessThanWellFounded, WFMin
  <1>3. \A y \in T : ~(y < x)
    BY Zenon, <1>1, <1>2
  <1> QED
    BY <1>3

(* The next tool of a scan is the first one after its cursor with a revision. *)
LEMMA NextToolIsNext ==
    ASSUME NEW c \in Checkpoint, OnTool(c)
    PROVE  /\ NextTool(c.cursor) \in Tool /\ NextTool(c.cursor) > c.cursor
           /\ tools[NextTool(c.cursor)] # <<>>
           /\ \A u \in Tool : u > c.cursor /\ u < NextTool(c.cursor) => tools[u] = <<>>
  <1> DEFINE T == NextTools(c.cursor)
  <1>1. T \in SUBSET Nat /\ T # {} /\ \A t \in T : t \in Tool
    BY Constants DEF NextTools, OnTool
  <1>2. \E t \in T : \A u \in T : t <= u
    BY <1>1, LeastElement
  <1>3. NextTool(c.cursor) \in T /\ \A u \in T : NextTool(c.cursor) <= u
    BY <1>2 DEF NextTool
  <1>4. \A u \in Tool : u > c.cursor /\ u < NextTool(c.cursor) => u \notin T
    BY <1>1, <1>3, Constants
  <1> QED
    BY <1>3, <1>4, Constants DEF NextTools

(* What a page of a tool writes into the checkpoint. *)
Grown(t, P) == IF Rewrites(t, P) THEN Len(tools[t]) + 1 ELSE Len(tools[t])
Seen(t, i, P) == i > Len(tools[t]) \/ Reduced(tools[t][i], P) = tools[t][i]
NewEntries(t, P) == {[at |-> <<t, i>>, visible |-> Seen(t, i, P)] : i \in 1 .. Grown(t, P)}

(* The checkpoint after a page of a tool. *)
LEMMA ToolPageIs ==
    ASSUME TypeOK, NEW c \in Checkpoint, c.tools = Manifest, NEW t \in Tool, NEW P
    PROVE  LET d == ToolPage(c, t, P)
           IN  /\ d \in Checkpoint /\ d.cursor = t /\ d.tools = [Manifest EXCEPT ![t] = Grown(t, P)]
               /\ d.verified = c.verified \cup NewEntries(t, P)
  <1> DEFINE n == Len(tools[t])
             grown == IF Rewrites(t, P) THEN n + 1 ELSE n
             visible(i) == i > n \/ Reduced(tools[t][i], P) = tools[t][i]
             new == {[at |-> <<t, i>>, visible |-> visible(i)] : i \in 1 .. grown}
             deps == [s \in DOMAIN c.deps \cup Evidence(t) |-> pin[s]]
             d == ToolPage(c, t, P)
  <1>1. n \in Nat /\ grown \in Nat
    BY DEF TypeOK
  <1>2. d = [c EXCEPT !.cursor = t, !.tools[t] = grown, !.verified = @ \cup new, !.deps = deps]
    BY DEF ToolPage
  <1>3. new \in SUBSET [at : Tool \X Nat, visible : BOOLEAN]
    <2>1. \A i \in 1 .. grown : visible(i) \in BOOLEAN /\ <<t, i>> \in Tool \X Nat
      BY <1>1
    <2> HIDE DEF visible, grown
    <2> QED
      BY <2>1
  <1>4. deps \in Pinned
    <2>1. DOMAIN c.deps \in SUBSET Source
      BY DEF Checkpoint, Pinned
    <2>2. DOMAIN c.deps \cup Evidence(t) \in SUBSET Source
      BY <2>1, EvidenceElements
    <2> DEFINE S == DOMAIN c.deps \cup Evidence(t)
    <2>3. deps \in [S -> Nat]
      BY <2>2 DEF TypeOK
    <2> HIDE DEF S
    <2> QED
      BY Zenon, <2>2, <2>3 DEF Pinned, S
  <1>5. [Manifest EXCEPT ![t] = grown] \in Manifests
    BY <1>1, ManifestShape DEF Manifests
  <1>6. /\ d.cursor = t /\ d.tools = [Manifest EXCEPT ![t] = grown]
        /\ d.verified = c.verified \cup new /\ d.deps = deps /\ d.root = c.root
        /\ d = [root |-> d.root, tools |-> d.tools, cursor |-> d.cursor,
                verified |-> d.verified, deps |-> d.deps]
    <2> HIDE DEF new, deps, grown, d
    <2> QED
      BY Zenon, <1>2 DEF Checkpoint
  <1>7. d \in Checkpoint
    <2>1. c.verified \cup new \in SUBSET [at : Tool \X Nat, visible : BOOLEAN] /\ t \in 0 .. Complete
      BY <1>3, Constants DEF Checkpoint
    <2> HIDE DEF new, deps, grown, d
    <2> QED
      BY Zenon, <2>1, <1>4, <1>5, <1>6 DEF Checkpoint
  <1>8. grown = Grown(t, P) /\ new = NewEntries(t, P)
    BY DEF Grown, NewEntries, Seen
  <1> HIDE DEF new, grown, d
  <1> QED
    BY <1>6, <1>7, <1>8 DEF d

(* A page leads to a checkpoint. *)
LEMMA PageShape ==
    ASSUME TypeOK, NEW c \in Checkpoint, NEW P
    PROVE  Page(c, P) \in Checkpoint
  <1>1. CASE Restarts(c)
    BY Zenon, <1>1, ManifestShape, Shapes DEF Page, BeginCkpt, NoCkpt, Checkpoint, TypeOK, Root
  <1>2. CASE ~Restarts(c) /\ OnTool(c)
    <2>1. c.tools = Manifest
      BY <1>2 DEF Restarts, SnapshotChanged
    <2>2. ToolPage(c, NextTool(c.cursor), P) \in Checkpoint
      BY Zenon, <2>1, <1>2, NextToolIsNext, ToolPageIs
    <2> QED
      BY <1>2, <2>2 DEF Page
  <1>3. CASE ~Restarts(c) /\ ~OnTool(c)
    BY <1>3, Constants DEF Page, Checkpoint
  <1> QED
    BY <1>1, <1>2, <1>3

(* The next-state relation, one disjunct per action. *)
LEMMA NextCases ==
    ASSUME [Next]_vars, NEW G,
           UNCHANGED vars => G,
           \A s \in Source : EnsureIntent(s) => G,
           \A s \in Source : Archive(s) => G,
           \A s \in Source, state \in {"active", "narrowed", "revoked"} : Control(s, state) => G,
           BindScope => G,
           \A w \in Worker : Choose(w) => G,
           \A w \in Worker : Claim(w) => G,
           \A w \in Worker : Plan(w) => G,
           \A w \in Worker : Commit(w) => G,
           \A w \in Worker : Fail(w) => G,
           \A w \in Worker : StoreFault(w) => G,
           \A w \in Worker : Crash(w) => G,
           \A j \in Job : Elapse(j) => G,
           Status => G, Resume => G, RaiseCapacity => G
    PROVE  G
  BY DEF Next, WorkerNext, SourceNext

(* An event that happens is counted. *)
LEMMA SpendShape == ASSUME TypeOK, NEW what \in Event, Spend(what) PROVE left' \in [Event -> Nat]
  BY DEF TypeOK, Spend

(* The effect of a step on the record of one job, of one worker and of the    *)
(* root, field by field.                                                     *)
Statuses == Active \cup Terminal \cup {"Absent", "BlockedCapacity"}
IsJob(d, st, at, n, h, c) ==
    d \in JobRecord /\ d.status = st /\ d.attempts = at /\ d.rev = n /\ d.held = h /\ d.ckpt = c
IsWorker(d, p, j, n, r, e) ==
    d \in WorkerRecord /\ d.pc = p /\ d.job = j /\ d.rev = n /\ d.read = r /\ d.err = e

JobSet(j, st, at, n, h, c) ==
    /\ jobs' \in [Job -> JobRecord] /\ IsJob(jobs'[j], st, at, n, h, c)
    /\ \A k \in Job \ {j} : jobs'[k] = jobs[k]

WorkerSet(w, p, j, n, d, e) ==
    /\ worker' \in [Worker -> WorkerRecord] /\ IsWorker(worker'[w], p, j, n, d, e)
    /\ \A v \in Worker \ {w} : worker'[v] = worker[v]

RootSet(n, st) ==
    root' \in Root /\ root'.rev = n /\ root'.epoch = root.epoch /\ root'.state = st

(* The fields of a job that is updated. *)
LEMMA JobFields ==
    ASSUME NEW r \in JobRecord, NEW st \in Statuses, NEW at \in 0 .. MaxAttempts, NEW n \in Nat,
           NEW h \in BOOLEAN, NEW c \in Checkpoint
    PROVE  /\ IsJob([r EXCEPT !.status = st], st, r.attempts, r.rev, r.held, r.ckpt)
           /\ IsJob([r EXCEPT !.held = h], r.status, r.attempts, r.rev, h, r.ckpt)
           /\ IsJob([r EXCEPT !.status = st, !.rev = n, !.held = h], st, r.attempts, n, h, r.ckpt)
           /\ IsJob([r EXCEPT !.status = st, !.rev = n, !.ckpt = c], st, r.attempts, n, r.held, c)
           /\ IsJob([r EXCEPT !.status = st, !.rev = n, !.held = h, !.ckpt = c], st, r.attempts, n, h, c)
           /\ IsJob([r EXCEPT !.status = st, !.held = h, !.rev = n, !.attempts = at], st, at, n, h, r.ckpt)
  <1> USE DEF IsJob, JobRecord, Statuses
  <1>1. IsJob([r EXCEPT !.status = st], st, r.attempts, r.rev, r.held, r.ckpt)
    OBVIOUS
  <1>2. IsJob([r EXCEPT !.held = h], r.status, r.attempts, r.rev, h, r.ckpt)
    OBVIOUS
  <1>3. IsJob([r EXCEPT !.status = st, !.rev = n, !.held = h], st, r.attempts, n, h, r.ckpt)
    BY Zenon
  <1>4. IsJob([r EXCEPT !.status = st, !.rev = n, !.ckpt = c], st, r.attempts, n, r.held, c)
    BY Zenon
  <1>5. IsJob([r EXCEPT !.status = st, !.rev = n, !.held = h, !.ckpt = c], st, r.attempts, n, h, c)
    BY Zenon
  <1>6. IsJob([r EXCEPT !.status = st, !.held = h, !.rev = n, !.attempts = at], st, at, n, h, r.ckpt)
    BY Zenon
  <1> HIDE DEF IsJob, JobRecord, Statuses
  <1> QED
    BY <1>1, <1>2, <1>3, <1>4, <1>5, <1>6

(* The fields of a worker that is updated. *)
LEMMA WorkerFields ==
    ASSUME NEW r \in WorkerRecord, NEW p \in {"claimed", "planned", "failed"}, NEW n \in Nat, NEW d \in Read,
           NEW e \in {"AuthorityDenied", "BudgetExceeded", "CasConflict", "StoreUnavailable", "ClosureRejected"}
    PROVE  /\ IsWorker([r EXCEPT !.pc = p, !.err = e, !.read = d], p, r.job, r.rev, d, e)
           /\ IsWorker([r EXCEPT !.pc = p, !.read = d], p, r.job, r.rev, d, r.err)
           /\ IsWorker([r EXCEPT !.pc = p, !.rev = n], p, r.job, n, r.read, r.err)
  <1> USE DEF IsWorker, WorkerRecord
  <1>1. IsWorker([r EXCEPT !.pc = p, !.err = e, !.read = d], p, r.job, r.rev, d, e)
    BY Zenon
  <1>2. IsWorker([r EXCEPT !.pc = p, !.read = d], p, r.job, r.rev, d, r.err)
    BY Zenon
  <1>3. IsWorker([r EXCEPT !.pc = p, !.rev = n], p, r.job, n, r.read, r.err)
    BY Zenon
  <1> HIDE DEF IsWorker, WorkerRecord
  <1> QED
    BY <1>1, <1>2, <1>3

(* An update of one job leaves the others. *)
LEMMA JobUpdate ==
    ASSUME TypeOK, NEW j \in Job, NEW d, NEW st, NEW at, NEW n, NEW h, NEW c, IsJob(d, st, at, n, h, c),
           jobs' = [jobs EXCEPT ![j] = d]
    PROVE  JobSet(j, st, at, n, h, c)
  <1>1. d \in JobRecord
    BY DEF IsJob
  <1> QED
    BY <1>1 DEF TypeOK, JobSet

(* An update of one worker leaves the others. *)
LEMMA WorkerUpdate ==
    ASSUME TypeOK, NEW w \in Worker, NEW d, NEW p, NEW j, NEW n, NEW r, NEW e, IsWorker(d, p, j, n, r, e),
           worker' = [worker EXCEPT ![w] = d]
    PROVE  WorkerSet(w, p, j, n, r, e)
  <1>1. d \in WorkerRecord
    BY DEF IsWorker
  <1> QED
    BY <1>1 DEF TypeOK, WorkerSet

(* An update of the root keeps its epoch. *)
LEMMA RootUpdate ==
    ASSUME TypeOK, NEW st \in {"Ready", "Reconciling", "Capacity", "Repair"},
           \/ root' = [root EXCEPT !.rev = @ + 1, !.state = st]
           \/ st = root.state /\ root' = [root EXCEPT !.rev = @ + 1]
    PROVE  RootSet(root.rev + 1, st)
  <1>1. ASSUME NEW r \in Root, NEW n \in Nat
        PROVE  LET d == [r EXCEPT !.rev = n, !.state = st]
               IN  d \in Root /\ d.rev = n /\ d.epoch = r.epoch /\ d.state = st
    BY Zenon DEF Root
  <1>2. ASSUME NEW r \in Root, NEW n \in Nat
        PROVE  LET d == [r EXCEPT !.rev = n]
               IN  d \in Root /\ d.rev = n /\ d.epoch = r.epoch /\ d.state = r.state
    BY DEF Root
  <1>3. root \in Root /\ root.rev + 1 \in Nat
    BY DEF TypeOK, Root
  <1>4. CASE root' = [root EXCEPT !.rev = @ + 1, !.state = st]
    BY Zenon, <1>1, <1>3, <1>4 DEF RootSet
  <1>5. CASE st = root.state /\ root' = [root EXCEPT !.rev = @ + 1]
    BY <1>2, <1>3, <1>5 DEF RootSet
  <1> QED
    BY <1>4, <1>5

(* A worker that gives up is idle. *)
LEMMA GivesUpIs ==
    ASSUME TypeOK, NEW w \in Worker, GivesUp(w)
    PROVE  /\ worker' \in [Worker -> WorkerRecord] /\ worker'[w] = Idle
           /\ \A v \in Worker \ {w} : worker'[v] = worker[v]
  BY Shapes DEF TypeOK, GivesUp

(* A worker that fails keeps its claim. *)
LEMMA FailedIs ==
    ASSUME TypeOK, NEW w \in Worker,
           NEW class \in {"AuthorityDenied", "BudgetExceeded", "CasConflict", "StoreUnavailable", "ClosureRejected"},
           Failed(w, class)
    PROVE  WorkerSet(w, "failed", worker[w].job, worker[w].rev, NoRead, class)
  <1>1. worker[w] \in WorkerRecord
    BY DEF TypeOK
  <1>2. worker' = [worker EXCEPT ![w] = [worker[w] EXCEPT !.pc = "failed", !.err = class, !.read = NoRead]]
    BY Zenon DEF Failed
  <1>3. IsWorker([worker[w] EXCEPT !.pc = "failed", !.err = class, !.read = NoRead],
                 "failed", worker[w].job, worker[w].rev, NoRead, class)
    BY Zenon, <1>1, Shapes, WorkerFields
  <1> QED
    BY Zenon, <1>2, <1>3, WorkerUpdate

(* What a plan remembers. *)
Planned(w, r, sources) ==
    worker' = [worker EXCEPT ![w].pc = "planned",
                  ![w].read = [root |-> r, tools |-> Manifest, src |-> Pins(sources),
                                 permitted |-> Permitted]]

(* The sources that a feedback job reads. *)
LEMMA FeedbackSourcesShape ==
    ASSUME TypeOK, NEW s \in Source
    PROVE  FeedbackSources(s) \in SUBSET Source
  <1>1. \A q \in Seq(SUBSET Source) : q # <<>> => q[Len(q)] \in SUBSET Source
    OBVIOUS
  <1>2. \A t \in Feeds[s] : tools[t] # <<>> => Last(tools[t]) \subseteq Source
    BY Zenon, <1>1, Constants DEF TypeOK, Last
  <1> QED
    BY <1>2 DEF FeedbackSources

(* The ways a plan ends. *)
LEMMA PlanCases ==
    ASSUME TypeOK, NEW w \in Worker, Plan(w), worker[w].job \in Job
    PROVE  \/ GivesUp(w)
           \/ /\ Holds(w) /\ jobs[worker[w].job].held
              /\ \/ worker[w].job \in Source /\ Failed(w, "AuthorityDenied")
                 \/ Failed(w, "BudgetExceeded")
                 \/ /\ worker[w].job \in Source /\ FeedbackSources(worker[w].job) \in SUBSET Source
                    /\ Planned(w, 0, FeedbackSources(worker[w].job))
                 \/ /\ worker[w].job \in Epoch
                    /\ \E S \in SUBSET Source : Planned(w, root.rev, S)
  <1> DEFINE j == worker[w].job
  <1>1. CASE ~(Holds(w) /\ jobs[j].held)
    BY Zenon, <1>1 DEF Plan
  <1>2. CASE j \in Source /\ Holds(w) /\ jobs[j].held
    <2>2. FeedbackSources(j) \in SUBSET Source
      BY <1>2, FeedbackSourcesShape
    <2>3. \/ Failed(w, "AuthorityDenied") \/ Failed(w, "BudgetExceeded")
          \/ Planned(w, 0, FeedbackSources(j))
      BY Zenon, <1>2, Constants DEF Plan, Planned
    <2> QED
      BY <1>2, <2>2, <2>3
  <1>3. CASE j \in Epoch /\ Holds(w) /\ jobs[j].held
    <2>1. \/ Failed(w, "BudgetExceeded")
          \/ \E S \in PageSources(Ckpt(j)) : Planned(w, root.rev, S)
      BY Zenon, <1>3, Constants DEF Plan, Planned
    <2>2. ASSUME NEW c \in Checkpoint PROVE \A S \in PageSources(c) : S \in SUBSET Source
      <3>1. DOMAIN c.deps \in SUBSET Source
        BY DEF Checkpoint, Pinned
      <3>2. OnTool(c) => Evidence(NextTool(c.cursor)) \subseteq Source
        BY NextToolIsNext, EvidenceElements
      <3> QED
        BY <3>1, <3>2 DEF PageSources
    <2>3. Ckpt(j) \in Checkpoint
      BY Zenon, <1>3, CkptShapes
    <2> QED
      BY <1>3, <2>1, <2>2, <2>3
  <1> QED
    BY <1>1, <1>2, <1>3 DEF Job

(* The effect of each action on the jobs. *)
LEMMA JobIs == ASSUME TypeOK, NEW j \in Job
               PROVE  /\ jobs[j] \in JobRecord /\ jobs[j].rev \in Nat /\ jobs[j].rev + 1 \in Nat
                      /\ jobs[j].attempts \in 0 .. MaxAttempts /\ jobs[j].held \in BOOLEAN
                      /\ jobs[j].ckpt \in Checkpoint /\ jobs[j].status \in Statuses
  <1>1. jobs[j] \in JobRecord
    BY DEF TypeOK
  <1> QED
    BY <1>1 DEF JobRecord, Statuses

(* A new feedback intent makes its job pending. *)
LEMMA EnsureIntentIs ==
    ASSUME TypeOK, NEW s \in Source, EnsureIntent(s)
    PROVE  JobSet(s, "Pending", jobs[s].attempts, jobs[s].rev, jobs[s].held, jobs[s].ckpt)
  <1>1. jobs' = [jobs EXCEPT ![s] = [jobs[s] EXCEPT !.status = "Pending"]]
    BY DEF EnsureIntent
  <1>2. IsJob([jobs[s] EXCEPT !.status = "Pending"], "Pending", jobs[s].attempts, jobs[s].rev, jobs[s].held,
              jobs[s].ckpt)
    BY Zenon, JobIs, JobFields DEF Statuses, Active, Job
  <1> QED
    BY Zenon, <1>1, <1>2, JobUpdate DEF Job

(* A claim takes a lease at a new revision. *)
LEMMA ClaimIs ==
    ASSUME TypeOK, NEW w \in Worker, Claim(w), worker[w].job \in Job, Claimable(worker[w].job)
    PROVE  LET j == worker[w].job
           IN  /\ \E at \in 0 .. MaxAttempts :
                     JobSet(j, "Leased", at, jobs[j].rev + 1, TRUE, jobs[j].ckpt)
               /\ WorkerSet(w, "claimed", j, jobs[j].rev + 1, worker[w].read, worker[w].err)
  <1> DEFINE j == worker[w].job
             at == IF jobs[j].status = "ReadyToContinue" THEN jobs[j].attempts ELSE jobs[j].attempts + 1
             d == [jobs[j] EXCEPT !.status = "Leased", !.held = TRUE, !.rev = jobs[j].rev + 1, !.attempts = at]
             v == [worker[w] EXCEPT !.pc = "claimed", !.rev = jobs[j].rev + 1]
  <1>1. jobs' = [jobs EXCEPT ![j] = d] /\ worker' = [worker EXCEPT ![w] = v]
    BY Zenon DEF Claim
  <1>2. at \in 0 .. MaxAttempts
    BY JobIs, Constants DEF Claimable
  <1>3. IsJob(d, "Leased", at, jobs[j].rev + 1, TRUE, jobs[j].ckpt)
    <2> HIDE DEF at
    <2> QED
      BY Zenon, <1>2, JobIs, JobFields DEF Statuses, Active
  <1>4. IsWorker(v, "claimed", j, jobs[j].rev + 1, worker[w].read, worker[w].err)
    <2>1. worker[w] \in WorkerRecord
      BY DEF TypeOK
    <2>2. worker[w].read \in Read
      BY <2>1 DEF WorkerRecord
    <2> QED
      BY Zenon, <2>1, <2>2, JobIs, WorkerFields
  <1> HIDE DEF d, v, at
  <1>5. JobSet(j, "Leased", at, jobs[j].rev + 1, TRUE, jobs[j].ckpt)
    BY Zenon, <1>1, <1>3, JobUpdate
  <1>6. WorkerSet(w, "claimed", j, jobs[j].rev + 1, worker[w].read, worker[w].err)
    BY Zenon, <1>1, <1>4, WorkerUpdate
  <1> QED
    BY Zenon, <1>2, <1>5, <1>6

(* A plan remembers the tools, the pins and the permissions it read. *)
LEMMA PlannedIs ==
    ASSUME TypeOK, NEW w \in Worker, NEW r \in Nat, NEW S \in SUBSET Source, Planned(w, r, S)
    PROVE  \E d \in Read :
              /\ d.tools = Manifest /\ d.src = Pins(S) /\ d.permitted = Permitted
              /\ WorkerSet(w, "planned", worker[w].job, worker[w].rev, d, worker[w].err)
  <1> DEFINE d == [root |-> r, tools |-> Manifest, src |-> Pins(S), permitted |-> Permitted]
             v == [worker[w] EXCEPT !.pc = "planned", !.read = d]
  <1>1. d \in Read /\ d.tools = Manifest /\ d.src = Pins(S) /\ d.permitted = Permitted
    BY ManifestShape, PinsShape DEF Read, Permitted
  <1>2. worker' = [worker EXCEPT ![w] = v]
    BY Zenon DEF Planned
  <1> HIDE DEF d
  <1>3. worker[w] \in WorkerRecord
    BY DEF TypeOK
  <1>4. IsWorker(v, "planned", worker[w].job, worker[w].rev, d, worker[w].err)
    BY Zenon, <1>1, <1>3, WorkerFields
  <1> HIDE DEF v
  <1>5. WorkerSet(w, "planned", worker[w].job, worker[w].rev, d, worker[w].err)
    BY Zenon, <1>2, <1>4, WorkerUpdate
  <1> QED
    BY Zenon, <1>1, <1>5

(* A committed page continues the epoch or publishes it. *)
LEMMA CommitPageIs ==
    ASSUME TypeOK, NEW e \in Epoch, NEW r \in Read, CommitPage(e, r)
    PROVE  \/ /\ Publishes(Ckpt(e)) /\ RootSet(root.rev + 1, "Ready")
              /\ JobSet(e, "Succeeded", jobs[e].attempts, jobs[e].rev + 1, FALSE, jobs[e].ckpt)
           \/ /\ ~Publishes(Ckpt(e)) /\ root' = root
              /\ JobSet(e, "ReadyToContinue", jobs[e].attempts, jobs[e].rev + 1, FALSE,
                        Page(Ckpt(e), r.permitted))
  <1>1. e \in Job
    BY DEF Job
  <1>2. CASE Publishes(Ckpt(e))
    <2> DEFINE d == [jobs[e] EXCEPT !.status = "Succeeded", !.rev = jobs[e].rev + 1, !.held = FALSE]
    <2>1. jobs' = [jobs EXCEPT ![e] = d] /\ root' = [root EXCEPT !.rev = @ + 1, !.state = "Ready"]
      BY Zenon, <1>2 DEF CommitPage
    <2>2. IsJob(d, "Succeeded", jobs[e].attempts, jobs[e].rev + 1, FALSE, jobs[e].ckpt)
      BY Zenon, <1>1, JobIs, JobFields DEF Statuses, Terminal
    <2> HIDE DEF d
    <2>3. JobSet(e, "Succeeded", jobs[e].attempts, jobs[e].rev + 1, FALSE, jobs[e].ckpt)
      BY Zenon, <1>1, <2>1, <2>2, JobUpdate
    <2> QED
      BY Zenon, <1>2, <2>1, <2>3, RootUpdate
  <1>3. CASE ~Publishes(Ckpt(e))
    <2> DEFINE c == Page(Ckpt(e), r.permitted)
               d == [jobs[e] EXCEPT !.status = "ReadyToContinue", !.rev = jobs[e].rev + 1, !.held = FALSE,
                                    !.ckpt = c]
    <2>1. jobs' = [jobs EXCEPT ![e] = d] /\ root' = root
      BY Zenon, <1>3 DEF CommitPage
    <2>2. c \in Checkpoint
      BY CkptShapes, PageShape
    <2> HIDE DEF c
    <2>3. IsJob(d, "ReadyToContinue", jobs[e].attempts, jobs[e].rev + 1, FALSE, c)
      BY Zenon, <1>1, <2>2, JobIs, JobFields DEF Statuses, Active
    <2> HIDE DEF d
    <2>4. JobSet(e, "ReadyToContinue", jobs[e].attempts, jobs[e].rev + 1, FALSE, c)
      BY Zenon, <1>1, <2>1, <2>3, JobUpdate
    <2> QED
      BY Zenon, <1>3, <2>1, <2>4 DEF c
  <1> QED
    BY Zenon, <1>2, <1>3

(* A committed feedback ends its job. *)
LEMMA CommitFeedbackIs ==
    ASSUME TypeOK, NEW s \in Source, NEW r, CommitFeedback(s, r)
    PROVE  root' = root /\ JobSet(s, "Succeeded", jobs[s].attempts, jobs[s].rev + 1, FALSE, jobs[s].ckpt)
  <1> DEFINE d == [jobs[s] EXCEPT !.status = "Succeeded", !.rev = jobs[s].rev + 1, !.held = FALSE]
  <1>1. jobs' = [jobs EXCEPT ![s] = d] /\ root' = root /\ s \in Job
    BY Zenon DEF CommitFeedback, Job
  <1>2. IsJob(d, "Succeeded", jobs[s].attempts, jobs[s].rev + 1, FALSE, jobs[s].ckpt)
    BY Zenon, <1>1, JobIs, JobFields DEF Statuses, Terminal
  <1> HIDE DEF d
  <1> QED
    BY Zenon, <1>1, <1>2, JobUpdate

(* A reported failure ends, blocks or delays the job. *)
LEMMA FailIs ==
    ASSUME TypeOK, NEW w \in Worker, Fail(w), worker[w].job \in Job, Holds(w), jobs[worker[w].job].held,
           worker[w].err = "AuthorityDenied" => worker[w].job \in Source
    PROVE  LET j == worker[w].job
           IN  \E st \in {"Cancelled", "BlockedCapacity", "RepairRequired", "DeadLetter", "RetryWaiting"}, h \in BOOLEAN :
                  /\ JobSet(j, st, jobs[j].attempts, jobs[j].rev + 1, h, jobs[j].ckpt)
                  /\ \/ j \in Epoch /\ st = "BlockedCapacity" /\ RootSet(root.rev + 1, "Capacity")
                     \/ j \in Epoch /\ st \in {"RepairRequired", "DeadLetter"} /\ RootSet(root.rev + 1, "Repair")
                     \/ (j \in Epoch => st = "RetryWaiting") /\ root' = root
  <1> DEFINE j == worker[w].job
             st == FailedStatus(j, worker[w].err)
             h == (st = "RetryWaiting")
             d == [jobs[j] EXCEPT !.status = st, !.rev = jobs[j].rev + 1, !.held = h]
  <1>1. jobs' = [jobs EXCEPT ![j] = d] /\ root' = RootAfter(j, st)
    BY Zenon DEF Fail
  <1>2. /\ st \in {"Cancelled", "BlockedCapacity", "RepairRequired", "DeadLetter", "RetryWaiting"}
        /\ st = "Cancelled" => j \notin Epoch
    BY Zenon, Constants DEF FailedStatus
  <1>3. h \in BOOLEAN
    OBVIOUS
  <1> HIDE DEF h, st
  <1>4. IsJob(d, st, jobs[j].attempts, jobs[j].rev + 1, h, jobs[j].ckpt)
    <2>1. st \in Statuses
      BY Zenon, <1>2 DEF Statuses, Active, Terminal
    <2>2. /\ jobs[j] \in JobRecord /\ jobs[j].rev + 1 \in Nat /\ jobs[j].attempts \in 0 .. MaxAttempts
          /\ jobs[j].ckpt \in Checkpoint
      BY JobIs
    <2> QED
      BY Zenon, <2>1, <2>2, <1>3, JobFields
  <1> HIDE DEF d
  <1>5. JobSet(j, st, jobs[j].attempts, jobs[j].rev + 1, h, jobs[j].ckpt)
    BY Zenon, <1>1, <1>4, JobUpdate
  <1>6. \/ j \in Epoch /\ st = "BlockedCapacity" /\ root' = [root EXCEPT !.rev = @ + 1, !.state = "Capacity"]
        \/ j \in Epoch /\ st \in {"RepairRequired", "DeadLetter"} /\ root' = [root EXCEPT !.rev = @ + 1, !.state = "Repair"]
        \/ (j \in Epoch => st = "RetryWaiting") /\ root' = root
    BY <1>1, <1>2 DEF RootAfter
  <1>7. \/ j \in Epoch /\ st = "BlockedCapacity" /\ RootSet(root.rev + 1, "Capacity")
        \/ j \in Epoch /\ st \in {"RepairRequired", "DeadLetter"} /\ RootSet(root.rev + 1, "Repair")
        \/ (j \in Epoch => st = "RetryWaiting") /\ root' = root
    BY <1>6, RootUpdate
  <1> QED
    BY <1>2, <1>3, <1>5, <1>7

(* A lease or a delay that runs out only frees the job. *)
LEMMA ElapseIs ==
    ASSUME TypeOK, NEW j \in Job, Elapse(j)
    PROVE  JobSet(j, jobs[j].status, jobs[j].attempts, jobs[j].rev, FALSE, jobs[j].ckpt)
  <1> DEFINE d == [jobs[j] EXCEPT !.held = FALSE]
  <1>1. jobs' = [jobs EXCEPT ![j] = d]
    BY DEF Elapse
  <1>2. IsJob(d, jobs[j].status, jobs[j].attempts, jobs[j].rev, FALSE, jobs[j].ckpt)
    BY Zenon, JobIs, JobFields
  <1> HIDE DEF d
  <1> QED
    BY Zenon, <1>1, <1>2, JobUpdate

(* A resumed epoch starts its scan again. *)
LEMMA ResumeIs ==
    ASSUME TypeOK, Resume
    PROVE  LET e == root.epoch
           IN  /\ e \in Epoch /\ RootSet(root.rev + 1, "Reconciling") /\ jobs[e].status = "BlockedCapacity"
               /\ \E c \in Checkpoint :
                     /\ c.cursor = 0 /\ c.verified = {} /\ c.tools = Manifest
                     /\ JobSet(e, "ReadyToContinue", jobs[e].attempts, jobs[e].rev + 1, jobs[e].held, c)
  <1> DEFINE e == root.epoch
             c == [BeginCkpt EXCEPT !.root = root.rev + 1]
             d == [jobs[e] EXCEPT !.status = "ReadyToContinue", !.rev = jobs[e].rev + 1, !.ckpt = c]
  <1>1. jobs' = [jobs EXCEPT ![e] = d] /\ root' = [root EXCEPT !.rev = @ + 1, !.state = "Reconciling"]
    BY Zenon DEF Resume
  <1>2. root.epoch >= 1 /\ asked.job \in Epoch \cup {0}
    BY DEF TypeOK, Root
  <1>3. e \in Epoch /\ e \in Job /\ jobs[e].status = "BlockedCapacity"
    BY <1>2 DEF Resume, Resumable, Job
  <1>4. c \in Checkpoint /\ c.cursor = 0 /\ c.verified = {} /\ c.tools = Manifest
    BY <1>3, CkptShapes DEF BeginCkpt, NoCkpt
  <1> HIDE DEF c
  <1>5. IsJob(d, "ReadyToContinue", jobs[e].attempts, jobs[e].rev + 1, jobs[e].held, c)
    BY Zenon, <1>3, <1>4, JobIs, JobFields DEF Statuses, Active
  <1> HIDE DEF d
  <1>6. JobSet(e, "ReadyToContinue", jobs[e].attempts, jobs[e].rev + 1, jobs[e].held, c)
    BY Zenon, <1>1, <1>3, <1>5, JobUpdate
  <1>7. RootSet(root.rev + 1, "Reconciling")
    BY <1>1, RootUpdate
  <1> QED
    BY <1>3, <1>4, <1>6, <1>7

(* A new epoch replaces the one before. *)
LEMMA BeginEpochIs ==
    ASSUME TypeOK, BeginEpoch
    PROVE  LET e == root.epoch + 1
           IN  /\ e \in Epoch /\ root' \in Root /\ line' \in Seq(Job) /\ jobs' \in [Job -> JobRecord]
               /\ root'.epoch = e /\ root'.state = "Reconciling"
               /\ IsJob(jobs'[e], "Pending", 0, 0, FALSE, NoCkpt)
               /\ \A j \in Job : j # e =>
                     \/ jobs'[j] = jobs[j] /\ (j = root.epoch => jobs[j].status \in Terminal)
                     \/ /\ j = root.epoch /\ jobs[j].status \notin Terminal
                        /\ IsJob(jobs'[j], "Cancelled", jobs[j].attempts, jobs[j].rev + 1, FALSE, jobs[j].ckpt)
  <1> DEFINE e == root.epoch + 1
             new == [Absent EXCEPT !.status = "Pending"]
             ended(j) == [jobs[j] EXCEPT !.status = "Cancelled", !.rev = jobs[j].rev + 1, !.held = FALSE]
  <1>1. root \in Root /\ root.epoch \in Nat /\ root.epoch >= 1 /\ root.rev \in Nat
    BY Constants DEF TypeOK, Root
  <1>2. e \in Epoch /\ e \in Job /\ e # root.epoch /\ e \in 1 .. MaxEpoch
    <2>1. e <= MaxEpoch
      BY Zenon DEF BeginEpoch
    <2> QED
      BY <2>1, <1>1, Constants DEF Epoch, Job
  <1>3. line' \in Seq(Job)
    <2>1. line' = Append(line, e) /\ line \in Seq(Job)
      BY Zenon DEF BeginEpoch, TypeOK
    <2> HIDE DEF e
    <2> QED
      BY <2>1, <1>2
  <1>4. root' \in Root /\ root'.epoch = e /\ root'.state = "Reconciling"
    <2> HIDE DEF e
    <2>1. root' = [rev |-> root.rev + 1, epoch |-> e, state |-> "Reconciling"]
      BY Zenon DEF BeginEpoch, e
    <2> QED
      BY <2>1, <1>1, <1>2 DEF Root
  <1>5. IsJob(new, "Pending", 0, 0, FALSE, NoCkpt)
    <2>1. /\ Absent \in JobRecord /\ "Pending" \in Statuses
          /\ Absent.attempts = 0 /\ Absent.rev = 0 /\ Absent.held = FALSE /\ Absent.ckpt = NoCkpt
      BY Shapes DEF Absent, Statuses, Active
    <2>2. IsJob(new, "Pending", Absent.attempts, Absent.rev, Absent.held, Absent.ckpt)
      <3>1. 0 \in 0 .. MaxAttempts /\ 0 \in Nat /\ FALSE \in BOOLEAN /\ NoCkpt \in Checkpoint
        BY Shapes, Constants
      <3> QED
        BY Zenon, <3>1, <2>1, JobFields
    <2> QED
      BY Zenon, <2>1, <2>2
  <1>6. \A j \in Job : IsJob(ended(j), "Cancelled", jobs[j].attempts, jobs[j].rev + 1, FALSE, jobs[j].ckpt)
    BY Zenon, JobIs, JobFields DEF Statuses, Terminal
  <1>7. jobs' = [j \in Job |-> IF j = e THEN new
                               ELSE IF j = root.epoch /\ jobs[j].status \notin Terminal THEN ended(j) ELSE jobs[j]]
    BY Zenon DEF BeginEpoch
  <1> HIDE DEF new, ended, e
  <1>8. jobs'[e] = new /\ \A j \in Job : j # e =>
           jobs'[j] = IF j = root.epoch /\ jobs[j].status \notin Terminal THEN ended(j) ELSE jobs[j]
    BY Zenon, <1>2, <1>7
  <1>9. \A j \in Job : jobs'[j] \in JobRecord
    BY <1>5, <1>6, <1>8, JobIs DEF IsJob
  <1>10. jobs' \in [Job -> JobRecord]
    BY Zenon, <1>7, <1>9
  <1> QED
    BY Zenon, <1>2, <1>3, <1>4, <1>5, <1>6, <1>8, <1>10 DEF e

(* A commit takes effect or it only ends the cycle, perhaps after a report. *)
Ineffective(w) ==
    /\ UNCHANGED <<tools, root, jobs, ledger, left>>
    /\ \/ GivesUp(w)
       \/ \E class \in {"AuthorityDenied", "BudgetExceeded", "CasConflict", "StoreUnavailable", "ClosureRejected"} :
             Failed(w, class) /\ (class = "AuthorityDenied" => worker[w].job \in Source)

Answered(w) ==
    \/ GivesUp(w) /\ UNCHANGED left
    \/ Spend("fault") /\ Failed(w, "StoreUnavailable")

(* The ways a commit ends. *)
LEMMA CommitCases ==
    ASSUME NEW w \in Worker, Commit(w), worker[w].job \in Job
    PROVE  \/ Ineffective(w)
           \/ /\ CommitError(w) = "none" /\ Holds(w) /\ Unchanged(w) /\ Answered(w)
              /\ \/ worker[w].job \in Epoch /\ CommitPage(worker[w].job, worker[w].read)
                 \/ /\ worker[w].job \in Source /\ worker[w].job \in Permitted /\ root.state = "Ready"
                    /\ CommitFeedback(worker[w].job, worker[w].read)
  <1>1. /\ CommitError(w) \in {"none", "AuthorityDenied", "CasConflict"}
        /\ CommitError(w) = "AuthorityDenied" => worker[w].job \in Source
        /\ CommitError(w) = "none" =>
              /\ Holds(w) /\ Unchanged(w)
              /\ worker[w].job \in Source => worker[w].job \in Permitted /\ root.state = "Ready"
    BY Zenon DEF CommitError
  <1>2. CASE CommitError(w) = "none" /\ ~Ineffective(w)
    BY Zenon, <1>1, <1>2 DEF Commit, Ineffective, Answered, Job
  <1>3. CASE CommitError(w) # "none"
    BY Zenon, <1>1, <1>3 DEF Commit, Ineffective
  <1> QED
    BY Zenon, <1>2, <1>3

(* The worker after a commit took effect. *)
LEMMA AnsweredIs ==
    ASSUME TypeOK, NEW w \in Worker, Answered(w)
    PROVE  /\ left' \in [Event -> Nat] /\ worker' \in [Worker -> WorkerRecord]
           /\ \A v \in Worker \ {w} : worker'[v] = worker[v]
           /\ \/ worker'[w] = Idle
              \/ IsWorker(worker'[w], "failed", worker[w].job, worker[w].rev, NoRead, "StoreUnavailable")
  <1>1. CASE GivesUp(w) /\ UNCHANGED left
    BY Zenon, <1>1, GivesUpIs DEF TypeOK
  <1>2. CASE Spend("fault") /\ Failed(w, "StoreUnavailable")
    BY Zenon, <1>2, FailedIs, SpendShape DEF WorkerSet, Event
  <1> QED
    BY Zenon, <1>1, <1>2 DEF Answered

(* The worker after a commit that took no effect. *)
LEMMA IneffectiveIs ==
    ASSUME TypeOK, NEW w \in Worker, Ineffective(w)
    PROVE  /\ worker' \in [Worker -> WorkerRecord] /\ \A v \in Worker \ {w} : worker'[v] = worker[v]
           /\ \/ worker'[w] = Idle
              \/ \E class :
                    /\ IsWorker(worker'[w], "failed", worker[w].job, worker[w].rev, NoRead, class)
                    /\ class = "AuthorityDenied" => worker[w].job \in Source
  <1>1. CASE GivesUp(w)
    BY Zenon, <1>1, GivesUpIs
  <1>2. ASSUME NEW class \in {"AuthorityDenied", "BudgetExceeded", "CasConflict", "StoreUnavailable", "ClosureRejected"},
               Failed(w, class), class = "AuthorityDenied" => worker[w].job \in Source
        PROVE  /\ worker' \in [Worker -> WorkerRecord] /\ \A v \in Worker \ {w} : worker'[v] = worker[v]
               /\ IsWorker(worker'[w], "failed", worker[w].job, worker[w].rev, NoRead, class)
    BY Zenon, <1>2, FailedIs DEF WorkerSet
  <1> QED
    BY Zenon, <1>1, <1>2 DEF Ineffective

(* A revision is appended to some tools. *)
LEMMA ToolsGrow ==
    ASSUME IInv, NEW w \in Worker, worker[w].pc = "planned", Commit(w)
    PROVE  /\ tools' \in [Tool -> Seq(SUBSET Source)]
           /\ \A t \in Tool : /\ Len(tools'[t]) >= Len(tools[t])
                              /\ \A i \in 1 .. Len(tools[t]) : tools'[t][i] = tools[t][i]
  <1>1. TypeOK /\ ClaimsAreExact /\ PlansAreFenced
    BY DEF IInv
  <1> DEFINE j == worker[w].job
             r == worker[w].read
  <1>2. j \in Job /\ r \in Read /\ r.tools \in [Tool -> Nat] /\ tools \in [Tool -> Seq(SUBSET Source)]
    BY Zenon, <1>1 DEF ClaimsAreExact, ClaimOK, Busy, PlansAreFenced, PlanOK, TypeOK, WorkerRecord
  <1>3. \A t \in Tool : tools[t] \in Seq(SUBSET Source)
    BY Zenon, <1>2
  <1>4. ASSUME NEW t \in Tool, NEW x \in SUBSET Source, NEW q, q = Append(tools[t], x)
        PROVE  /\ q \in Seq(SUBSET Source) /\ Len(q) >= Len(tools[t])
               /\ \A i \in 1 .. Len(tools[t]) : q[i] = tools[t][i]
    <2>1. tools[t] \in Seq(SUBSET Source)
      BY <1>3
    <2>2. Len(tools[t]) \in Nat
      BY <2>1
    <2> QED
      BY <1>4, <2>1, <2>2, AppendEvidence
  <1>5. CASE tools' = tools
    BY <1>2, <1>5
  <1>6. CASE j \in Epoch /\ CommitPage(j, r) /\ tools' # tools
    <2> DEFINE c == Ckpt(j)
               t == NextTool(c.cursor)
    <2>1. OnTool(c) /\ tools' = [tools EXCEPT ![t] = Append(tools[t], Rebuilt(t, r.permitted))]
      BY Zenon, <1>6 DEF CommitPage
    <2>2. t \in Tool
      BY Zenon, <1>1, <1>6, <2>1, CkptShapes, NextToolIsNext
    <2>3. Rebuilt(t, r.permitted) \in SUBSET Source
      BY <1>1, <2>2, BodyShapes
    <2> HIDE DEF t
    <2>4. /\ \A u \in Tool : u # t => tools'[u] = tools[u]
          /\ tools'[t] = Append(tools[t], Rebuilt(t, r.permitted)) /\ DOMAIN tools' = Tool
          /\ tools' = [u \in Tool |-> tools'[u]]
      BY Zenon, <1>2, <2>1, <2>2
    <2>5. \A u \in Tool : /\ tools'[u] \in Seq(SUBSET Source) /\ Len(tools'[u]) >= Len(tools[u])
                          /\ \A i \in 1 .. Len(tools[u]) : tools'[u][i] = tools[u][i]
      <3> SUFFICES ASSUME NEW u \in Tool
                   PROVE  /\ tools'[u] \in Seq(SUBSET Source) /\ Len(tools'[u]) >= Len(tools[u])
                          /\ \A i \in 1 .. Len(tools[u]) : tools'[u][i] = tools[u][i]
        OBVIOUS
      <3>1. CASE u = t
        <4> DEFINE x == Rebuilt(t, r.permitted)
        <4>1. tools'[t] = Append(tools[t], x) /\ x \in SUBSET Source
          BY <2>3, <2>4
        <4> HIDE DEF x
        <4>2. /\ tools'[t] \in Seq(SUBSET Source) /\ Len(tools'[t]) >= Len(tools[t])
              /\ \A i \in 1 .. Len(tools[t]) : tools'[t][i] = tools[t][i]
          BY Zenon, <4>1, <1>4, <2>2
        <4> QED
          BY <4>2, <3>1
      <3>2. CASE u # t
        <4>1. tools'[u] = tools[u] /\ tools[u] \in Seq(SUBSET Source)
          BY Zenon, <3>2, <1>3, <2>4
        <4> QED
          BY <4>1
      <3> QED
        BY Zenon, <3>1, <3>2
    <2> QED
      BY <2>4, <2>5
  <1>7. CASE j \in Source /\ CommitFeedback(j, r)
    <2>1. tools' = [t \in Tool |-> IF t \in Feeds[j] THEN Append(tools[t], Merged(j, t, r)) ELSE tools[t]]
      BY <1>7 DEF CommitFeedback
    <2>2. \A t \in Feeds[j] : t \in Tool /\ Merged(j, t, r) \in SUBSET Source
      BY Zenon, <1>1, <1>2, <1>7, BodyShapes, Constants DEF PlansAreFenced, PlanOK
    <2>3. \A u \in Tool : /\ tools'[u] \in Seq(SUBSET Source) /\ Len(tools'[u]) >= Len(tools[u])
                          /\ \A i \in 1 .. Len(tools[u]) : tools'[u][i] = tools[u][i]
      <3> SUFFICES ASSUME NEW u \in Tool
                   PROVE  /\ tools'[u] \in Seq(SUBSET Source) /\ Len(tools'[u]) >= Len(tools[u])
                          /\ \A i \in 1 .. Len(tools[u]) : tools'[u][i] = tools[u][i]
        OBVIOUS
      <3>1. tools'[u] = IF u \in Feeds[j] THEN Append(tools[u], Merged(j, u, r)) ELSE tools[u]
        BY <2>1
      <3>2. CASE u \in Feeds[j]
        <4>1. tools'[u] = Append(tools[u], Merged(j, u, r)) /\ Merged(j, u, r) \in SUBSET Source
          BY <3>1, <3>2, <2>2
        <4> QED
          BY Zenon, <4>1, <1>4
      <3>3. CASE u \notin Feeds[j]
        <4>1. tools'[u] = tools[u] /\ tools[u] \in Seq(SUBSET Source)
          BY Zenon, <3>1, <3>3, <1>3
        <4> QED
          BY <4>1
      <3> QED
        BY Zenon, <3>2, <3>3
    <2> QED
      BY Zenon, <2>1, <2>3
  <1> QED
    BY <1>2, <1>5, <1>6, <1>7, CommitCases DEF Ineffective

(* The entry that a committed feedback makes in the ledger. *)
LEMMA LedgerShape ==
    ASSUME TypeOK, NEW s \in Source, NEW r, CommitFeedback(s, r)
    PROVE  LET d == ledger'[s]
           IN  /\ ledger' \in [Source -> [epoch : 0 .. MaxEpoch, at : Applied]]
               /\ \A u \in Source \ {s} : ledger'[u] = ledger[u]
               /\ d.epoch = root.epoch /\ d.at = [t \in Feeds[s] |-> Len(tools[t]) + 1]
  <1> DEFINE at == [t \in Feeds[s] |-> Len(tools[t]) + 1]
             d == [epoch |-> root.epoch, at |-> at]
  <1>1. ledger' = [ledger EXCEPT ![s] = d]
    BY DEF CommitFeedback
  <1>2. at \in Applied
    <2>1. Feeds[s] \in SUBSET Tool
      BY Zenon, Constants
    <2>2. at \in [Feeds[s] -> Nat]
      BY <2>1 DEF TypeOK
    <2> HIDE DEF at
    <2> QED
      BY <2>1, <2>2 DEF Applied
  <1>3. root.epoch \in 0 .. MaxEpoch
    BY Constants DEF TypeOK, Root
  <1> HIDE DEF at
  <1>4. d \in [epoch : 0 .. MaxEpoch, at : Applied] /\ d.epoch = root.epoch /\ d.at = at
    BY <1>2, <1>3
  <1> HIDE DEF d
  <1>5. ledger \in [Source -> [epoch : 0 .. MaxEpoch, at : Applied]]
    BY Zenon DEF TypeOK
  <1> QED
    BY <1>1, <1>4, <1>5 DEF at

(* Every step keeps the types. *)
LEMMA TypeStep == ASSUME IInv, [Next]_vars PROVE TypeOK'
  <1>0. TypeOK /\ EpochsClose /\ ClaimsAreExact /\ PlansAreFenced
    BY Zenon DEF IInv
  <1>1. ASSUME UNCHANGED vars PROVE TypeOK'
    BY Zenon, <1>0, <1>1 DEF TypeOK, vars
  <1>2. ASSUME NEW s \in Source, EnsureIntent(s) PROVE TypeOK'
    <2>1. jobs' \in [Job -> JobRecord]
      BY <1>0, <1>2, EnsureIntentIs DEF JobSet
    <2>2. line' \in Seq(Job)
      BY <1>0, <1>2 DEF TypeOK, EnsureIntent, Job
    <2> QED
      BY <2>1, <2>2, <1>0, <1>2 DEF TypeOK, EnsureIntent
  <1>3. ASSUME NEW s \in Source, Archive(s) PROVE TypeOK'
    <2>1. left' \in [Event -> Nat]
      BY Zenon, <1>0, <1>3, SpendShape DEF Archive, Event
    <2>2. pin' \in [Source -> Nat]
      BY <1>0, <1>3 DEF Archive, TypeOK
    <2> QED
      BY <2>1, <2>2, <1>0, <1>3 DEF TypeOK, Archive
  <1>4. ASSUME NEW s \in Source, NEW state \in {"active", "narrowed", "revoked"}, Control(s, state)
        PROVE  TypeOK'
    <2>1. left' \in [Event -> Nat]
      BY Zenon, <1>0, <1>4, SpendShape DEF Control, Event
    <2>2. pin' \in [Source -> Nat] /\ producer' \in [Source -> {"active", "narrowed", "revoked"}]
      BY <1>0, <1>4 DEF TypeOK, Control
    <2>3. root' \in Root /\ line' \in Seq(Job) /\ jobs' \in [Job -> JobRecord]
      BY <1>0, <1>4, BeginEpochIs DEF Control
    <2> QED
      BY <2>1, <2>2, <2>3, <1>0, <1>4 DEF TypeOK, Control
  <1>5. ASSUME BindScope PROVE TypeOK'
    <2>1. left' \in [Event -> Nat]
      BY Zenon, <1>0, <1>5, SpendShape DEF BindScope, Event
    <2>2. root.state \in {"Ready", "Reconciling", "Capacity", "Repair"}
      BY <1>0 DEF TypeOK, Root
    <2>3. root' \in Root
      BY Zenon, <2>2, <1>0, <1>5, RootUpdate DEF BindScope, RootSet
    <2> QED
      BY <2>1, <2>3, <1>0, <1>5 DEF TypeOK, BindScope
  <1>6. ASSUME NEW w \in Worker, Choose(w) PROVE TypeOK'
    <2>1. PICK i \in 1 .. Len(line) :
              worker' = [worker EXCEPT ![w] = [Idle EXCEPT !.pc = "chosen", !.job = line[i]]]
      BY Zenon, <1>6 DEF Choose
    <2>2. line[i] \in Job
      BY <1>0 DEF TypeOK
    <2>3. [Idle EXCEPT !.pc = "chosen", !.job = line[i]] \in WorkerRecord
      BY Zenon, <2>2, Shapes DEF WorkerRecord
    <2>4. worker' \in [Worker -> WorkerRecord]
      BY Zenon, <2>1, <2>3, <1>0 DEF TypeOK
    <2> QED
      BY <2>4, <1>0, <1>6 DEF TypeOK, Choose
  <1>7. ASSUME NEW w \in Worker, Claim(w) PROVE TypeOK'
    <2>1. worker[w].job \in Job
      BY <1>0, <1>7 DEF Claim, ClaimsAreExact, ClaimOK, Busy
    <2>2. jobs' \in [Job -> JobRecord] /\ worker' \in [Worker -> WorkerRecord]
      <3>1. CASE Claimable(worker[w].job)
        BY Zenon, <3>1, <2>1, <1>0, <1>7, ClaimIs DEF JobSet, WorkerSet
      <3>2. CASE ~Claimable(worker[w].job)
        <4>1. GivesUp(w) /\ jobs' = jobs
          BY Zenon, <3>2, <1>7 DEF Claim
        <4> QED
          BY <4>1, <1>0, GivesUpIs DEF TypeOK
      <3> QED
        BY <3>1, <3>2
    <2> QED
      BY Zenon, <2>2, <1>0, <1>7 DEF TypeOK, Claim
  <1>8. ASSUME NEW w \in Worker, Plan(w) PROVE TypeOK'
    <2>1. worker[w].job \in Job /\ root.rev \in Nat
      BY Zenon, <1>0, <1>8 DEF Plan, ClaimsAreExact, ClaimOK, Busy, TypeOK, Root
    <2>2. ASSUME NEW r \in Nat, NEW S \in SUBSET Source, Planned(w, r, S)
          PROVE  worker' \in [Worker -> WorkerRecord]
      BY Zenon, <1>0, <2>2, PlannedIs DEF WorkerSet
    <2>3. \A class \in {"AuthorityDenied", "BudgetExceeded"} : Failed(w, class) => worker' \in [Worker -> WorkerRecord]
      BY Zenon, <1>0, FailedIs DEF WorkerSet
    <2>4. worker' \in [Worker -> WorkerRecord]
      BY Zenon, <2>1, <2>2, <2>3, <1>0, <1>8, PlanCases, GivesUpIs
    <2> QED
      BY <2>4, <1>0, <1>8 DEF TypeOK, Plan
  <1>9. ASSUME NEW w \in Worker, Commit(w) PROVE TypeOK'
    <2> DEFINE j == worker[w].job
               r == worker[w].read
    <2>0. worker[w].pc = "planned" /\ UNCHANGED <<producer, pin, line, cap, asked>>
      BY Zenon, <1>9 DEF Commit
    <2>1. j \in Job /\ r \in Read
      BY Zenon, <1>0, <2>0 DEF ClaimsAreExact, ClaimOK, Busy, TypeOK, WorkerRecord
    <2>2. tools' \in [Tool -> Seq(SUBSET Source)]
      BY Zenon, <1>9, <2>0, ToolsGrow
    <2>3. CASE Ineffective(w)
      <3>1. worker' \in [Worker -> WorkerRecord]
        BY Zenon, <1>0, <2>3, IneffectiveIs
      <3> QED
        BY <3>1, <2>0, <2>3, <1>0 DEF TypeOK, Ineffective
    <2>4. CASE Answered(w) /\ j \in Epoch /\ CommitPage(j, r)
      <3>1. root' \in Root /\ jobs' \in [Job -> JobRecord]
        BY Zenon, <1>0, <2>1, <2>4, CommitPageIs DEF JobSet, RootSet, TypeOK
      <3>2. ledger' = ledger
        BY Zenon, <2>4 DEF CommitPage
      <3>3. left' \in [Event -> Nat] /\ worker' \in [Worker -> WorkerRecord]
        BY Zenon, <1>0, <2>4, AnsweredIs
      <3> QED
        BY <3>1, <3>2, <3>3, <2>0, <2>2, <1>0 DEF TypeOK
    <2>5. CASE Answered(w) /\ j \in Source /\ CommitFeedback(j, r)
      <3>1. root' = root /\ jobs' \in [Job -> JobRecord]
        BY Zenon, <1>0, <2>5, CommitFeedbackIs DEF JobSet
      <3>2. ledger' \in [Source -> [epoch : 0 .. MaxEpoch, at : Applied]]
        BY Zenon, <1>0, <2>5, LedgerShape
      <3>3. left' \in [Event -> Nat] /\ worker' \in [Worker -> WorkerRecord]
        BY Zenon, <1>0, <2>5, AnsweredIs
      <3> QED
        BY <3>1, <3>2, <3>3, <2>0, <2>2, <1>0 DEF TypeOK
    <2> QED
      BY Zenon, <1>9, <2>1, <2>3, <2>4, <2>5, CommitCases
  <1>10. ASSUME NEW w \in Worker, Fail(w) PROVE TypeOK'
    <2> DEFINE j == worker[w].job
    <2>1. worker' \in [Worker -> WorkerRecord]
      BY Zenon, <1>0, <1>10, GivesUpIs DEF Fail
    <2>2. j \in Job /\ (worker[w].err = "AuthorityDenied" => j \in Source)
      BY <1>0, <1>10 DEF Fail, ClaimsAreExact, ClaimOK, Busy
    <2>3. root' \in Root /\ jobs' \in [Job -> JobRecord]
      <3>1. CASE Holds(w) /\ jobs[j].held
        BY Zenon, <3>1, <2>2, <1>0, <1>10, FailIs DEF JobSet, RootSet, TypeOK
      <3>2. CASE ~(Holds(w) /\ jobs[j].held)
        BY Zenon, <3>2, <1>0, <1>10 DEF Fail, TypeOK
      <3> QED
        BY Zenon, <3>1, <3>2
    <2> QED
      BY Zenon, <2>1, <2>3, <1>0, <1>10 DEF TypeOK, Fail
  <1>11. ASSUME NEW w \in Worker, StoreFault(w) PROVE TypeOK'
    <2>1. left' \in [Event -> Nat] /\ worker' \in [Worker -> WorkerRecord]
      BY Zenon, <1>0, <1>11, SpendShape, FailedIs DEF StoreFault, Event, WorkerSet
    <2> QED
      BY Zenon, <2>1, <1>0, <1>11 DEF TypeOK, StoreFault
  <1>12. ASSUME NEW w \in Worker, Crash(w) PROVE TypeOK'
    <2>1. left' \in [Event -> Nat] /\ worker' \in [Worker -> WorkerRecord]
      BY Zenon, <1>0, <1>12, SpendShape, GivesUpIs DEF Crash, Event
    <2> QED
      BY Zenon, <2>1, <1>0, <1>12 DEF TypeOK, Crash
  <1>13. ASSUME NEW j \in Job, Elapse(j) PROVE TypeOK'
    <2>1. left' \in [Event -> Nat]
      BY Zenon, <1>0, <1>13, SpendShape DEF Elapse, Event, TypeOK
    <2>2. jobs' \in [Job -> JobRecord]
      BY Zenon, <1>0, <1>13, ElapseIs DEF JobSet
    <2> QED
      BY Zenon, <2>1, <2>2, <1>0, <1>13 DEF TypeOK, Elapse
  <1>14. ASSUME Status PROVE TypeOK'
    <2>1. root.epoch \in Epoch
      BY <1>0, <1>14, Constants DEF TypeOK, Root, Status, EpochsClose, Epoch
    <2>2. jobs[root.epoch].rev \in Nat
      BY Zenon, <2>1, <1>0, JobIs DEF Job
    <2>3. asked' \in [job : Epoch \cup {0}, rev : Nat]
      BY Zenon, <2>1, <2>2, <1>14 DEF Status
    <2> QED
      BY Zenon, <2>3, <1>0, <1>14 DEF TypeOK, Status
  <1>15. ASSUME Resume PROVE TypeOK'
    <2>1. left' \in [Event -> Nat]
      BY Zenon, <1>0, <1>15, SpendShape DEF Resume, Event
    <2>2. root' \in Root /\ jobs' \in [Job -> JobRecord]
      BY Zenon, <1>0, <1>15, ResumeIs DEF JobSet, RootSet
    <2> QED
      BY Zenon, <2>1, <2>2, <1>0, <1>15 DEF TypeOK, Resume
  <1>16. ASSUME RaiseCapacity PROVE TypeOK'
    BY <1>0, <1>16, ReconciliationAssumption DEF TypeOK, RaiseCapacity
  <1> QED
    BY <1>1, <1>2, <1>3, <1>4, <1>5, <1>6, <1>7, <1>8, <1>9, <1>10, <1>11, <1>12, <1>13, <1>14, <1>15,
       <1>16, NextCases

---------------------------------------------------------------------------
(* What any step may do to the jobs, the workers, the authority and the tools. *)
JobsAdvance ==
    \A k \in Job : jobs[k].status # "Absent" =>
        /\ jobs'[k].status # "Absent" /\ jobs'[k].rev >= jobs[k].rev
        /\ jobs'[k].rev = jobs[k].rev => jobs'[k].status = jobs[k].status

(* An update to the next revision, or within the same one and status,         *)
(* advances.                                                                  *)
LEMMA JobSetAdvances ==
    ASSUME TypeOK, NEW j \in Job, NEW st, NEW at, NEW n, NEW h, NEW c, JobSet(j, st, at, n, h, c),
           jobs[j].status # "Absent" =>
              st # "Absent" /\ (n = jobs[j].rev + 1 \/ (n = jobs[j].rev /\ st = jobs[j].status))
    PROVE  JobsAdvance
  <1> SUFFICES ASSUME NEW k \in Job, jobs[k].status # "Absent"
               PROVE  /\ jobs'[k].status # "Absent" /\ jobs'[k].rev >= jobs[k].rev
                      /\ jobs'[k].rev = jobs[k].rev => jobs'[k].status = jobs[k].status
    BY Zenon DEF JobsAdvance
  <1>1. jobs[k].rev \in Nat
    BY Zenon, JobIs
  <1>2. CASE k = j
    BY <1>1, <1>2 DEF JobSet, IsJob
  <1>3. CASE k # j
    BY <1>1, <1>3 DEF JobSet
  <1> QED
    BY Zenon, <1>2, <1>3

(* The job gets a new revision. *)
NewRevision(j, st) == \E at, h, c : JobSet(j, st, at, jobs[j].rev + 1, h, c)

(* A new revision advances. *)
LEMMA NewRevisionAdvances ==
    ASSUME TypeOK, NEW j \in Job, NEW st, st # "Absent", NewRevision(j, st)
    PROVE  JobsAdvance
  <1>1. PICK at, h, c : JobSet(j, st, at, jobs[j].rev + 1, h, c)
    BY Zenon DEF NewRevision
  <1> SUFFICES ASSUME NEW k \in Job, jobs[k].status # "Absent"
               PROVE  /\ jobs'[k].status # "Absent" /\ jobs'[k].rev >= jobs[k].rev
                      /\ jobs'[k].rev = jobs[k].rev => jobs'[k].status = jobs[k].status
    BY Zenon DEF JobsAdvance
  <1>2. jobs[k].rev \in Nat
    BY Zenon, JobIs
  <1>3. CASE k = j
    BY <1>1, <1>2, <1>3 DEF JobSet, IsJob
  <1>4. CASE k # j
    BY <1>1, <1>2, <1>4 DEF JobSet
  <1> QED
    BY Zenon, <1>3, <1>4

(* Unchanged jobs advance. *)
LEMMA SameJobsAdvance == ASSUME TypeOK, jobs' = jobs PROVE JobsAdvance
  <1>1. \A k \in Job : jobs[k].rev \in Nat
    BY Zenon, JobIs
  <1> QED
    BY <1>1 DEF JobsAdvance

(* In every step the jobs advance. *)
LEMMA JobsStep == ASSUME IInv, [Next]_vars PROVE JobsAdvance
  <1>0. TypeOK /\ EpochsClose /\ ClaimsAreExact
    BY Zenon DEF IInv
  <1>1. ASSUME UNCHANGED vars PROVE JobsAdvance
    BY Zenon, <1>0, <1>1, SameJobsAdvance DEF vars
  <1>2. ASSUME NEW s \in Source, EnsureIntent(s) PROVE JobsAdvance
    <2>1. s \in Job /\ jobs[s].status = "Absent"
      BY Zenon, <1>2 DEF EnsureIntent, Job
    <2> QED
      BY <2>1, <1>0, <1>2, EnsureIntentIs, JobSetAdvances
  <1>3. ASSUME NEW s \in Source, Archive(s) PROVE JobsAdvance
    BY Zenon, <1>0, <1>3, SameJobsAdvance DEF Archive
  <1>4. ASSUME NEW s \in Source, NEW state \in {"active", "narrowed", "revoked"}, Control(s, state)
        PROVE  JobsAdvance
    <2> DEFINE e == root.epoch + 1
    <2>1. /\ e \in Epoch /\ e > root.epoch
          /\ \A j \in Job : j # e =>
                     \/ jobs'[j] = jobs[j]
                     \/ IsJob(jobs'[j], "Cancelled", jobs[j].attempts, jobs[j].rev + 1, FALSE, jobs[j].ckpt)
      <3>1. BeginEpoch /\ root.epoch \in Nat
        BY <1>0, <1>4, Constants DEF Control, TypeOK, Root
      <3>2. e > root.epoch
        BY <3>1
      <3> QED
        BY Zenon, <3>1, <3>2, <1>0, BeginEpochIs
    <2>2. jobs[e].status = "Absent"
      BY Zenon, <2>1, <1>0 DEF EpochsClose
    <2>3. \A j \in Job : jobs[j].rev \in Nat
      BY <1>0, JobIs
    <2> HIDE DEF e
    <2> QED
      BY <2>1, <2>2, <2>3 DEF JobsAdvance, IsJob
  <1>5. ASSUME BindScope PROVE JobsAdvance
    BY <1>0, <1>5, SameJobsAdvance DEF BindScope
  <1>6. ASSUME NEW w \in Worker, Choose(w) PROVE JobsAdvance
    BY <1>0, <1>6, SameJobsAdvance DEF Choose
  <1>7. ASSUME NEW w \in Worker, Claim(w) PROVE JobsAdvance
    <2>1. worker[w].job \in Job
      BY <1>0, <1>7 DEF Claim, ClaimsAreExact, ClaimOK, Busy
    <2>2. CASE Claimable(worker[w].job)
      <3>1. NewRevision(worker[w].job, "Leased")
        BY Zenon, <2>1, <2>2, <1>0, <1>7, ClaimIs DEF NewRevision
      <3> QED
        BY <3>1, <2>1, <1>0, NewRevisionAdvances
    <2>3. CASE ~Claimable(worker[w].job)
      BY Zenon, <2>3, <1>0, <1>7, SameJobsAdvance DEF Claim
    <2> QED
      BY Zenon, <2>2, <2>3
  <1>8. ASSUME NEW w \in Worker, Plan(w) PROVE JobsAdvance
    BY Zenon, <1>0, <1>8, SameJobsAdvance DEF Plan
  <1>9. ASSUME NEW w \in Worker, Commit(w) PROVE JobsAdvance
    <2> DEFINE j == worker[w].job
               r == worker[w].read
    <2>1. j \in Job /\ r \in Read
      BY Zenon, <1>0, <1>9 DEF Commit, ClaimsAreExact, ClaimOK, Busy, TypeOK, WorkerRecord
    <2>2. CASE Ineffective(w)
      BY Zenon, <2>2, <1>0, SameJobsAdvance DEF Ineffective
    <2>3. CASE j \in Epoch /\ CommitPage(j, r)
      <3>1. NewRevision(j, "Succeeded") \/ NewRevision(j, "ReadyToContinue")
        BY Zenon, <2>1, <2>3, <1>0, CommitPageIs DEF NewRevision
      <3> QED
        BY <3>1, <2>1, <1>0, NewRevisionAdvances
    <2>4. CASE j \in Source /\ CommitFeedback(j, r)
      <3>1. NewRevision(j, "Succeeded")
        BY Zenon, <2>1, <2>4, <1>0, CommitFeedbackIs DEF NewRevision
      <3> QED
        BY <3>1, <2>1, <1>0, NewRevisionAdvances
    <2> QED
      BY <1>9, <2>1, <2>2, <2>3, <2>4, CommitCases
  <1>10. ASSUME NEW w \in Worker, Fail(w) PROVE JobsAdvance
    <2> DEFINE j == worker[w].job
    <2>1. j \in Job /\ (worker[w].err = "AuthorityDenied" => j \in Source)
      BY Zenon, <1>0, <1>10 DEF Fail, ClaimsAreExact, ClaimOK, Busy
    <2>2. CASE Holds(w) /\ jobs[j].held
      <3>1. PICK st \in {"Cancelled", "BlockedCapacity", "RepairRequired", "DeadLetter", "RetryWaiting"} : NewRevision(j, st)
        BY <2>1, <2>2, <1>0, <1>10, FailIs DEF NewRevision
      <3>2. st # "Absent"
        BY Zenon
      <3> QED
        BY Zenon, <3>1, <3>2, <2>1, <1>0, NewRevisionAdvances
    <2>3. CASE ~(Holds(w) /\ jobs[j].held)
      BY Zenon, <2>3, <1>0, <1>10, SameJobsAdvance DEF Fail
    <2> QED
      BY Zenon, <2>2, <2>3
  <1>11. ASSUME NEW w \in Worker, StoreFault(w) PROVE JobsAdvance
    BY Zenon, <1>0, <1>11, SameJobsAdvance DEF StoreFault
  <1>12. ASSUME NEW w \in Worker, Crash(w) PROVE JobsAdvance
    BY <1>0, <1>12, SameJobsAdvance DEF Crash
  <1>13. ASSUME NEW j \in Job, Elapse(j) PROVE JobsAdvance
    BY Zenon, <1>0, <1>13, ElapseIs, JobSetAdvances
  <1>14. ASSUME Status PROVE JobsAdvance
    BY <1>0, <1>14, SameJobsAdvance DEF Status
  <1>15. ASSUME Resume PROVE JobsAdvance
    <2>1. root.epoch \in Job /\ NewRevision(root.epoch, "ReadyToContinue")
      BY <1>0, <1>15, ResumeIs DEF Job, NewRevision
    <2> QED
      BY Zenon, <2>1, <1>0, NewRevisionAdvances
  <1>16. ASSUME RaiseCapacity PROVE JobsAdvance
    BY Zenon, <1>0, <1>16, SameJobsAdvance DEF RaiseCapacity
  <1> QED
    BY <1>1, <1>2, <1>3, <1>4, <1>5, <1>6, <1>7, <1>8, <1>9, <1>10, <1>11, <1>12, <1>13, <1>14, <1>15,
       <1>16, NextCases

(* A worker is left alone, ends its cycle, reports an error, or takes a step of its own. *)
Kept(w) ==
    \/ worker'[w] = worker[w] \/ worker'[w] = Idle
    \/ /\ worker'[w].pc = "failed" /\ Working(w)
       /\ worker'[w].job = worker[w].job /\ worker'[w].rev = worker[w].rev
       /\ worker'[w].err = "AuthorityDenied" => worker[w].job \in Source

OwnStep(w) ==
    \/ Choose(w)
    \/ Claim(w) /\ Claimable(worker[w].job)
    \/ /\ Plan(w) /\ Holds(w)
       /\ \/ worker[w].job \in Source /\ Planned(w, 0, FeedbackSources(worker[w].job))
          \/ worker[w].job \in Epoch /\ \E S \in SUBSET Source : Planned(w, root.rev, S)

(* A failure of one worker keeps every claim. *)
LEMMA FailedKept ==
    ASSUME TypeOK, NEW w \in Worker, Working(w),
           NEW class \in {"AuthorityDenied", "BudgetExceeded", "CasConflict", "StoreUnavailable", "ClosureRejected"},
           Failed(w, class), class = "AuthorityDenied" => worker[w].job \in Source
    PROVE  \A v \in Worker : Kept(v)
  BY Zenon, FailedIs DEF WorkerSet, IsWorker, Kept

(* So does giving up. *)
LEMMA GivesUpKept == ASSUME TypeOK, NEW w \in Worker, GivesUp(w) PROVE \A v \in Worker : Kept(v)
  BY GivesUpIs DEF Kept

(* A step keeps the claim of a worker or is its own. *)
LEMMA WorkersStep == ASSUME IInv, [Next]_vars PROVE \A v \in Worker : Kept(v) \/ OwnStep(v)
  <1>0. TypeOK /\ ClaimsAreExact
    BY Zenon DEF IInv
  <1> DEFINE G == \A v \in Worker : Kept(v) \/ OwnStep(v)
  <1>00. worker' = worker => G
    BY Zenon DEF Kept
  <1>6. ASSUME NEW w \in Worker, Choose(w) PROVE G
    <2>1. \A v \in Worker \ {w} : worker'[v] = worker[v]
      BY Zenon, <1>0, <1>6 DEF Choose, TypeOK
    <2>2. OwnStep(w)
      BY <1>6 DEF OwnStep
    <2> QED
      BY <2>1, <2>2 DEF Kept
  <1>7. ASSUME NEW w \in Worker, Claim(w) PROVE G
    <2>1. worker[w].job \in Job
      BY Zenon, <1>0, <1>7 DEF Claim, ClaimsAreExact, ClaimOK, Busy
    <2>2. CASE Claimable(worker[w].job)
      <3>1. \A v \in Worker \ {w} : worker'[v] = worker[v]
        BY Zenon, <2>1, <2>2, <1>0, <1>7, ClaimIs DEF WorkerSet
      <3> QED
        BY <3>1, <2>2, <1>7 DEF Kept, OwnStep
    <2>3. CASE ~Claimable(worker[w].job)
      BY <2>3, <1>0, <1>7, GivesUpKept DEF Claim
    <2> QED
      BY Zenon, <2>2, <2>3
  <1>8. ASSUME NEW w \in Worker, Plan(w) PROVE G
    <2>1. worker[w].job \in Job /\ Working(w) /\ root.rev \in Nat
      BY Zenon, <1>0, <1>8 DEF Plan, ClaimsAreExact, ClaimOK, Busy, Working, TypeOK, Root
    <2>2. ASSUME NEW r \in Nat, NEW S \in SUBSET Source, Planned(w, r, S)
          PROVE  \A v \in Worker \ {w} : worker'[v] = worker[v]
      BY <1>0, <2>2, PlannedIs DEF WorkerSet
    <2>3. CASE GivesUp(w)
      BY Zenon, <2>3, <1>0, GivesUpKept
    <2>4. CASE worker[w].job \in Source /\ Failed(w, "AuthorityDenied")
      BY <2>1, <2>4, <1>0, FailedKept
    <2>5. CASE Failed(w, "BudgetExceeded")
      BY Zenon, <2>1, <2>5, <1>0, FailedKept
    <2>6. CASE /\ Holds(w) /\ worker[w].job \in Source /\ FeedbackSources(worker[w].job) \in SUBSET Source
               /\ Planned(w, 0, FeedbackSources(worker[w].job))
      <3>1. OwnStep(w)
        BY Zenon, <2>6, <1>8 DEF OwnStep
      <3> QED
        BY Zenon, <3>1, <2>2, <2>6 DEF Kept
    <2>7. CASE Holds(w) /\ worker[w].job \in Epoch /\ \E S \in SUBSET Source : Planned(w, root.rev, S)
      <3>1. OwnStep(w)
        BY Zenon, <2>7, <1>8 DEF OwnStep
      <3> QED
        BY Zenon, <3>1, <2>1, <2>2, <2>7 DEF Kept
    <2> QED
      BY Zenon, <2>1, <2>3, <2>4, <2>5, <2>6, <2>7, <1>0, <1>8, PlanCases
  <1>9. ASSUME NEW w \in Worker, Commit(w) PROVE G
    <2>1. worker[w].job \in Job /\ Working(w)
      BY Zenon, <1>0, <1>9 DEF Commit, ClaimsAreExact, ClaimOK, Busy, Working
    <2>2. CASE Ineffective(w)
      BY Zenon, <2>1, <2>2, <1>0, FailedKept, GivesUpKept DEF Ineffective
    <2>3. CASE Answered(w)
      BY Zenon, <2>1, <2>3, <1>0, FailedKept, GivesUpKept DEF Answered
    <2> QED
      BY Zenon, <1>9, <2>1, <2>2, <2>3, CommitCases
  <1>10. ASSUME NEW w \in Worker, Fail(w) PROVE G
    BY <1>0, <1>10, GivesUpKept DEF Fail
  <1>11. ASSUME NEW w \in Worker, StoreFault(w) PROVE G
    <2>1. Working(w) /\ (Failed(w, "StoreUnavailable") \/ Failed(w, "ClosureRejected"))
      BY Zenon, <1>11 DEF StoreFault, Working
    <2> QED
      BY Zenon, <2>1, <1>0, FailedKept
  <1>12. ASSUME NEW w \in Worker, Crash(w) PROVE G
    BY Zenon, <1>0, <1>12, GivesUpKept DEF Crash
  <1>13. \/ worker' = worker
         \/ \E w \in Worker : \/ Choose(w) \/ Claim(w) \/ Plan(w) \/ Commit(w) \/ Fail(w)
                              \/ StoreFault(w) \/ Crash(w)
    BY Zenon DEF Next, vars, WorkerNext, SourceNext, EnsureIntent, Archive, Control, BindScope, Elapse, Status,
           Resume, RaiseCapacity
  <1> HIDE DEF G
  <1>14. G
    BY Zenon, <1>00, <1>6, <1>7, <1>8, <1>9, <1>10, <1>11, <1>12, <1>13
  <1> QED
    BY <1>14 DEF G

(* Authority changes only with a new epoch, and every change is seen in the pins. *)
LEMMA AuthorityStep ==
    ASSUME TypeOK, [Next]_vars
    PROVE  /\ \A s \in Source : pin'[s] >= pin[s] /\ (pin'[s] = pin[s] => producer'[s] = producer[s])
           /\ BeginEpoch \/ producer' = producer
  <1>0. \A s \in Source : pin[s] \in Nat
    BY Zenon DEF TypeOK
  <1>1. CASE UNCHANGED <<producer, pin>>
    BY <1>0, <1>1
  <1>2. ASSUME NEW u \in Source, pin' = [pin EXCEPT ![u] = @ + 1],
               \A s \in Source \ {u} : producer'[s] = producer[s]
        PROVE  \A s \in Source : pin'[s] >= pin[s] /\ (pin'[s] = pin[s] => producer'[s] = producer[s])
    <2>1. pin'[u] = pin[u] + 1 /\ \A s \in Source \ {u} : pin'[s] = pin[s]
      BY Zenon, <1>2 DEF TypeOK
    <2> QED
      BY <2>1, <1>0, <1>2
  <1>3. ASSUME NEW u \in Source, Archive(u)
        PROVE  producer' = producer /\ pin' = [pin EXCEPT ![u] = @ + 1]
    BY Zenon, <1>3 DEF Archive
  <1>4. ASSUME NEW u \in Source, NEW state, Control(u, state)
        PROVE  BeginEpoch /\ pin' = [pin EXCEPT ![u] = @ + 1] /\ \A s \in Source \ {u} : producer'[s] = producer[s]
    BY Zenon, <1>4 DEF Control, TypeOK
  <1>5. \/ UNCHANGED <<producer, pin>>
        \/ \E u \in Source : Archive(u) \/ \E state : Control(u, state)
    BY Zenon DEF Next, vars, WorkerNext, SourceNext, EnsureIntent, BindScope, Elapse, Status,
           Resume, RaiseCapacity, Choose, Claim, Plan, Commit, Fail, StoreFault, Crash
  <1> QED
    BY Zenon, <1>1, <1>2, <1>3, <1>4, <1>5

(* The revisions of a tool are only added to. *)
LEMMA ToolsStep ==
    ASSUME IInv, [Next]_vars
    PROVE  \A t \in Tool : /\ Len(tools'[t]) >= Len(tools[t])
                          /\ \A i \in 1 .. Len(tools[t]) : tools'[t][i] = tools[t][i]
  <1>1. \A t \in Tool : Len(tools[t]) \in Nat
    BY DEF IInv, TypeOK
  <1>2. CASE tools' = tools
    BY <1>1, <1>2
  <1>3. \/ tools' = tools
        \/ \E w \in Worker : Commit(w)
    BY Zenon DEF Next, vars, WorkerNext, SourceNext, EnsureIntent, Archive, Control, BindScope, Elapse, Status,
           Resume, RaiseCapacity, Choose, Claim, Plan, Fail, StoreFault, Crash
  <1>4. ASSUME NEW w \in Worker, Commit(w) PROVE worker[w].pc = "planned"
    BY <1>4 DEF Commit
  <1> QED
    BY Zenon, <1>2, <1>3, <1>4, ToolsGrow

(* Every step keeps the claims exact. *)
LEMMA ClaimsStep == ASSUME IInv, [Next]_vars PROVE ClaimsAreExact'
  <1>0. TypeOK /\ ClaimsAreExact /\ TypeOK' /\ JobsAdvance
    BY TypeStep, JobsStep DEF IInv
  <1> SUFFICES ASSUME NEW w \in Worker PROVE ClaimOK(w)'
    BY Zenon DEF ClaimsAreExact
  <1>1. ClaimOK(w) /\ worker[w].rev \in Nat /\ \A j \in Job : jobs[j].rev \in Nat /\ jobs'[j].rev \in Nat
    <2>1. \A j \in Job : jobs[j] \in JobRecord /\ jobs'[j] \in JobRecord
      BY Zenon, <1>0 DEF TypeOK
    <2> QED
      BY Zenon, <2>1, <1>0 DEF ClaimsAreExact, TypeOK, WorkerRecord, JobRecord
  <1>2. ASSUME worker'[w].job = worker[w].job, worker'[w].rev = worker[w].rev,
               Busy(w), Busy(w)', Working(w)' => Working(w),
               worker'[w].pc = "failed" /\ worker'[w].err = "AuthorityDenied" => worker[w].job \in Source
        PROVE  ClaimOK(w)'
    <2> DEFINE j == worker[w].job
    <2>1. /\ j \in Job /\ jobs[j].status # "Absent" /\ jobs'[j].status # "Absent"
          /\ jobs'[j].rev >= jobs[j].rev
          /\ jobs'[j].rev = jobs[j].rev => jobs'[j].status = jobs[j].status
      BY Zenon, <1>0, <1>1, <1>2 DEF ClaimOK, JobsAdvance
    <2>2. ASSUME Working(w) PROVE /\ worker[w].rev <= jobs'[j].rev
                                  /\ jobs'[j].rev = worker[w].rev => jobs'[j].status = "Leased"
      <3>1. worker[w].rev <= jobs[j].rev /\ (jobs[j].rev = worker[w].rev => jobs[j].status = "Leased")
        BY Zenon, <1>1, <2>2 DEF ClaimOK, Holds
      <3> QED
        BY <3>1, <2>1, <1>1
    <2> QED
      BY <1>2, <2>1, <2>2 DEF ClaimOK, Holds
  <1>3. CASE worker'[w] = Idle
    BY <1>3 DEF ClaimOK, Busy, Working, Idle
  <1>4. CASE worker'[w] = worker[w] /\ ~Busy(w)
    BY <1>4 DEF ClaimOK, Busy, Working
  <1>5. CASE worker'[w] = worker[w] /\ Busy(w)
    BY Zenon, <1>1, <1>2, <1>5 DEF ClaimOK, Busy, Working
  <1>6. CASE /\ worker'[w].pc = "failed" /\ Working(w)
             /\ worker'[w].job = worker[w].job /\ worker'[w].rev = worker[w].rev
             /\ worker'[w].err = "AuthorityDenied" => worker[w].job \in Source
    BY Zenon, <1>2, <1>6 DEF Busy, Working
  <1>7. CASE Choose(w)
    <2>1. PICK i \in 1 .. Len(line) :
             Due(line[i]) /\ worker' = [worker EXCEPT ![w] = [Idle EXCEPT !.pc = "chosen", !.job = line[i]]]
      BY Zenon, <1>7 DEF Choose
    <2>2. line[i] \in Job /\ jobs[line[i]].status # "Absent" /\ jobs' = jobs
      BY <2>1, <1>0, <1>7 DEF Choose, TypeOK, Due, Active
    <2>3. worker'[w].pc = "chosen" /\ worker'[w].job = line[i]
      BY Zenon, <2>1, <1>0 DEF TypeOK, Idle
    <2> QED
      BY <2>2, <2>3 DEF ClaimOK, Busy, Working
  <1>8. CASE Claim(w) /\ Claimable(worker[w].job)
    <2> DEFINE j == worker[w].job
    <2>1. j \in Job
      BY <1>1, <1>8 DEF Claim, ClaimOK, Busy
    <2>2. jobs'[j].status = "Leased" /\ jobs'[j].rev = jobs[j].rev + 1
      BY Zenon, <2>1, <1>0, <1>8, ClaimIs DEF JobSet, IsJob
    <2>3. worker'[w].pc = "claimed" /\ worker'[w].job = j /\ worker'[w].rev = jobs[j].rev + 1
      BY Zenon, <2>1, <1>0, <1>8, ClaimIs DEF WorkerSet, IsWorker
    <2> QED
      BY <1>1, <2>1, <2>2, <2>3 DEF ClaimOK, Busy, Working, Holds
  <1>9. ASSUME NEW r \in Nat, NEW S \in SUBSET Source, Plan(w), Planned(w, r, S) PROVE ClaimOK(w)'
    <2>1. worker'[w].pc = "planned" /\ worker'[w].job = worker[w].job /\ worker'[w].rev = worker[w].rev
      BY Zenon, <1>0, <1>9, PlannedIs DEF WorkerSet, IsWorker
    <2>2. worker[w].pc = "claimed"
      BY Zenon, <1>9 DEF Plan
    <2> QED
      BY Zenon, <1>2, <2>1, <2>2 DEF Busy, Working
  <1>10. ASSUME Plan(w), worker[w].job \in Source, Planned(w, 0, FeedbackSources(worker[w].job))
         PROVE  ClaimOK(w)'
    <2>1. FeedbackSources(worker[w].job) \in SUBSET Source
      BY Zenon, <1>0, <1>10, FeedbackSourcesShape
    <2> QED
      BY Zenon, <2>1, <1>9, <1>10
  <1>11. root.rev \in Nat
    BY <1>0 DEF TypeOK, Root
  <1> QED
    BY Zenon, <1>3, <1>4, <1>5, <1>6, <1>7, <1>8, <1>9, <1>10, <1>11, WorkersStep DEF Kept, OwnStep

(* The lease of an epoch's job is a lease of the current one. *)
LEMMA LeasedIsCurrent ==
    ASSUME TypeOK, EpochsClose, NEW e \in Epoch, jobs[e].status = "Leased"
    PROVE  e = root.epoch /\ root.epoch > 1 /\ root.state = "Reconciling"
  <1>1. e \in Nat /\ e >= 2 /\ root.epoch \in Nat /\ root.epoch >= 1
        /\ root.state \in {"Ready", "Reconciling", "Capacity", "Repair"}
    BY Constants DEF TypeOK, Root
  <1>2. ~(e < root.epoch)
    BY Zenon DEF EpochsClose, RootClosesJob, Terminal
  <1>3. ~(e > root.epoch)
    BY Zenon DEF EpochsClose
  <1>4. e = root.epoch /\ root.epoch > 1
    BY <1>1, <1>2, <1>3
  <1> QED
    BY Zenon, <1>1, <1>4 DEF EpochsClose, RootClosesJob

(* Every step keeps the plans fenced. *)
LEMMA PlansStep == ASSUME IInv, [Next]_vars PROVE PlansAreFenced'
  <1>0. TypeOK /\ EpochsClose /\ ClaimsAreExact /\ PlansAreFenced /\ JobsAdvance /\ TypeOK'
    BY Zenon, JobsStep, TypeStep DEF IInv
  <1> SUFFICES ASSUME NEW w \in Worker, worker'[w].pc = "planned" PROVE PlanOK(w)'
    BY Zenon DEF PlansAreFenced
  <1>1. CASE worker'[w] = worker[w]
    <2> DEFINE r == worker[w].read
               j == worker[w].job
    <2>1. PlanOK(w) /\ ClaimOK(w) /\ r \in Read /\ worker[w].rev \in Nat
      BY Zenon, <1>0, <1>1 DEF PlansAreFenced, ClaimsAreExact, TypeOK, WorkerRecord
    <2>2. ASSUME NEW s \in DOMAIN r.src
          PROVE  /\ r.src[s] <= pin'[s]
                 /\ r.src[s] = pin'[s] => (s \in r.permitted <=> s \in Permitted')
      <3>1. s \in Source /\ r.src[s] \in Nat
        BY <2>1 DEF Read, Pinned
      <3>2. pin[s] \in Nat /\ pin'[s] \in Nat
        BY Zenon, <1>0, <3>1 DEF TypeOK
      <3>3. pin'[s] >= pin[s] /\ (pin'[s] = pin[s] => producer'[s] = producer[s])
        BY Zenon, <1>0, <3>1, AuthorityStep
      <3>4. r.src[s] <= pin[s] /\ (r.src[s] = pin[s] => (s \in r.permitted <=> s \in Permitted))
        BY Zenon, <2>1 DEF PlanOK
      <3>5. r.src[s] = pin'[s] => r.src[s] = pin[s] /\ producer'[s] = producer[s]
        BY <3>1, <3>2, <3>3, <3>4
      <3>6. producer'[s] = producer[s] => (s \in Permitted <=> s \in Permitted')
        BY Zenon, <3>1 DEF Permitted
      <3>7. r.src[s] <= pin'[s]
        BY <3>1, <3>2, <3>3, <3>4
      <3> QED
        BY Zenon, <3>4, <3>5, <3>6, <3>7
    <2>3. ASSUME j \in Epoch, jobs'[j].rev = worker[w].rev PROVE r.permitted = Permitted'
      <3>1. /\ j \in Job /\ jobs[j].status # "Absent" /\ worker[w].rev <= jobs[j].rev
            /\ jobs[j].rev \in Nat
        BY Zenon, <2>1, <1>0, <1>1, JobIs DEF ClaimOK, Busy, Working
      <3>2. jobs[j].rev = worker[w].rev /\ jobs'[j].rev = jobs[j].rev
        <4>1. jobs'[j].rev >= jobs[j].rev
          BY Zenon, <3>1, <1>0 DEF JobsAdvance
        <4> QED
          BY <4>1, <3>1, <2>1, <2>3
      <3>3. jobs[j].status = "Leased" /\ r.permitted = Permitted
        BY Zenon, <3>2, <2>1, <2>3, <1>1 DEF ClaimOK, PlanOK, Working, Holds
      <3>4. j = root.epoch
        BY Zenon, <3>3, <2>3, <1>0, LeasedIsCurrent
      <3>5. ~BeginEpoch
        <4> SUFFICES ASSUME BeginEpoch PROVE FALSE
          BY Zenon
        <4>1. root.epoch # root.epoch + 1
          BY <1>0, Constants DEF TypeOK, Root
        <4>2. IsJob(jobs'[j], "Cancelled", jobs[j].attempts, jobs[j].rev + 1, FALSE, jobs[j].ckpt)
          BY Zenon, <4>1, <3>1, <3>3, <3>4, <1>0, BeginEpochIs DEF Terminal
        <4>3. jobs'[j].rev = jobs[j].rev + 1
          BY Zenon, <4>2 DEF IsJob
        <4> QED
          BY <4>3, <3>1, <3>2
      <3>6. producer' = producer
        BY Zenon, <3>5, <1>0, AuthorityStep
      <3> QED
        BY Zenon, <3>3, <3>6 DEF Permitted
    <2>4. ASSUME j \in Source, NEW t \in Feeds[j]
          PROVE  /\ r.tools[t] <= Len(tools'[t])
                 /\ r.tools[t] > 0 => tools'[t][r.tools[t]] \subseteq DOMAIN r.src
      <3>1. t \in Tool /\ r.tools \in [Tool -> Nat]
        BY <2>1, <2>4, Constants DEF PlanOK
      <3>2. /\ r.tools[t] \in Nat /\ Len(tools[t]) \in Nat /\ Len(tools'[t]) \in Nat
            /\ r.tools[t] <= Len(tools[t])
            /\ r.tools[t] > 0 => tools[t][r.tools[t]] \subseteq DOMAIN r.src
        <4>1. tools[t] \in Seq(SUBSET Source) /\ tools'[t] \in Seq(SUBSET Source)
          BY Zenon, <3>1, <1>0 DEF TypeOK
        <4>2. Len(tools[t]) \in Nat /\ Len(tools'[t]) \in Nat
          BY <4>1
        <4>3. r.tools[t] \in Nat
          BY <3>1
        <4>4. /\ r.tools[t] <= Len(tools[t])
              /\ r.tools[t] > 0 => tools[t][r.tools[t]] \subseteq DOMAIN r.src
          BY Zenon, <2>1, <2>4 DEF PlanOK
        <4> QED
          BY Zenon, <4>2, <4>3, <4>4
      <3>3. /\ Len(tools'[t]) >= Len(tools[t])
            /\ \A i \in 1 .. Len(tools[t]) : tools'[t][i] = tools[t][i]
        BY Zenon, <3>1, ToolsStep
      <3>4. r.tools[t] > 0 => r.tools[t] \in 1 .. Len(tools[t])
        BY <3>2
      <3> HIDE DEF r
      <3>5. r.tools[t] <= Len(tools'[t])
        BY <3>2, <3>3
      <3> QED
        BY Zenon, <3>2, <3>3, <3>4, <3>5
    <2>5. r.tools \in [Tool -> Nat]
      BY <2>1 DEF PlanOK
    <2> QED
      BY Zenon, <1>1, <2>2, <2>3, <2>4, <2>5 DEF PlanOK, Holds
  <1>2. ASSUME NEW n \in Nat, NEW S \in SUBSET Source, Plan(w), Planned(w, n, S), Holds(w),
               worker[w].job \in Source => S = FeedbackSources(worker[w].job)
        PROVE  PlanOK(w)'
    <2> DEFINE r == worker'[w].read
               j == worker[w].job
    <2>1. /\ r.tools = Manifest /\ r.src = Pins(S) /\ r.permitted = Permitted
          /\ worker'[w].job = j
      BY Zenon, <1>0, <1>2, PlannedIs DEF WorkerSet, IsWorker
    <2>2. UNCHANGED <<producer, pin, tools, jobs>>
      BY Zenon, <1>2 DEF Plan
    <2>3. Permitted' = Permitted
      BY Zenon, <2>2 DEF Permitted
    <2>4. Manifest \in [Tool -> Nat] /\ \A t \in Tool : Manifest[t] = Len(tools[t])
      BY Zenon, <1>0, ManifestShape DEF Manifest
    <2>5. \A s \in DOMAIN Pins(S) : Pins(S)[s] = pin[s] /\ pin[s] \in Nat /\ pin[s] <= pin[s]
      BY <1>0, PinsShape DEF Pins, TypeOK
    <2>6. DOMAIN Pins(S) = S
      BY Zenon, <1>0, PinsShape
    <2>7. ASSUME j \in Source, NEW t \in Feeds[j]
          PROVE  /\ t \in Tool /\ Len(tools[t]) <= Len(tools[t])
                 /\ Len(tools[t]) > 0 => tools[t][Len(tools[t])] \subseteq S
      <3>1. t \in Tool /\ tools[t] \in Seq(SUBSET Source)
        BY Zenon, <1>0, <2>7, Constants DEF TypeOK
      <3>2. tools[t] # <<>> => Last(tools[t]) \subseteq S
        BY Zenon, <1>2, <2>7 DEF FeedbackSources
      <3> QED
        BY <3>1, <3>2 DEF Last
    <2> QED
      BY Zenon, <2>1, <2>2, <2>3, <2>4, <2>5, <2>6, <2>7 DEF PlanOK
  <1>3. worker'[w] # Idle
    BY DEF Idle
  <1>4. ASSUME Choose(w) PROVE FALSE
    <2>1. PICK i \in 1 .. Len(line) : worker' = [worker EXCEPT ![w] = [Idle EXCEPT !.pc = "chosen", !.job = line[i]]]
      BY Zenon, <1>4 DEF Choose
    <2>2. worker'[w].pc = "chosen"
      BY Zenon, <2>1, <1>0 DEF TypeOK, Idle
    <2> QED
      BY <2>2
  <1>5. ASSUME Claim(w), Claimable(worker[w].job) PROVE FALSE
    <2>1. worker[w].job \in Job
      BY <1>0, <1>5 DEF Claim, ClaimsAreExact, ClaimOK, Busy
    <2>2. worker'[w].pc = "claimed"
      BY Zenon, <2>1, <1>0, <1>5, ClaimIs DEF WorkerSet, IsWorker
    <2> QED
      BY Zenon, <2>2
  <1>6. ASSUME Plan(w), Holds(w), worker[w].job \in Source, Planned(w, 0, FeedbackSources(worker[w].job))
        PROVE  PlanOK(w)'
    <2>1. FeedbackSources(worker[w].job) \in SUBSET Source
      BY Zenon, <1>0, <1>6, FeedbackSourcesShape
    <2> QED
      BY Zenon, <2>1, <1>2, <1>6
  <1>7. ASSUME Plan(w), Holds(w), worker[w].job \in Epoch, NEW S \in SUBSET Source, Planned(w, root.rev, S)
        PROVE  PlanOK(w)'
    <2>1. root.rev \in Nat /\ worker[w].job \notin Source
      BY Zenon, <1>0, <1>7, Constants DEF TypeOK, Root
    <2> QED
      BY Zenon, <2>1, <1>2, <1>7
  <1>8. Kept(w) \/ OwnStep(w)
    BY Zenon, WorkersStep
  <1>9. CASE Kept(w)
    BY Zenon, <1>1, <1>3, <1>9 DEF Kept
  <1>10. CASE OwnStep(w)
    BY <1>4, <1>5, <1>6, <1>7, <1>10 DEF OwnStep
  <1> QED
    BY <1>8, <1>9, <1>10

(* The root's state and the status of its epoch's job. *)
Closes(state, status) ==
    \/ state = "Ready" /\ status = "Succeeded"
    \/ state = "Reconciling" /\ status \in Active
    \/ state = "Capacity" /\ status = "BlockedCapacity"
    \/ state = "Repair" /\ status \in {"RepairRequired", "DeadLetter"}

EpochsFit ==
    /\ root.epoch = 1 => root.state = "Ready"
    /\ root.epoch > 1 => Closes(root.state, jobs[root.epoch].status)
    /\ \A e \in Epoch : /\ e < root.epoch => jobs[e].status \in Terminal
                        /\ e > root.epoch => jobs[e].status = "Absent"

(* The clauses on epochs, by epoch. *)
LEMMA EpochsCloseIs == TypeOK => (EpochsClose <=> EpochsFit)
  <1> SUFFICES ASSUME root.state \in {"Ready", "Reconciling", "Capacity", "Repair"}
               PROVE  RootClosesJob <=>
                        /\ root.epoch > 1 => Closes(root.state, jobs[root.epoch].status)
                        /\ \A e \in Epoch : e < root.epoch => jobs[e].status \in Terminal
    BY DEF EpochsClose, EpochsFit, TypeOK, Root
  <1> QED
    BY Zenon DEF RootClosesJob, Closes, Active

(* The same after a step. *)
LEMMA EpochsCloseNext == TypeOK' => (EpochsClose' <=> EpochsFit')
  BY EpochsCloseIs, PTL

(* Statuses and the root's state stay as they are. *)
LEMMA EpochsSame ==
    ASSUME TypeOK, TypeOK', EpochsClose, root'.epoch = root.epoch, root'.state = root.state,
           \A e \in Epoch : jobs'[e].status = jobs[e].status
    PROVE  EpochsClose'
  <1>1. root.epoch > 1 => root.epoch \in Epoch
    BY Constants DEF TypeOK, Root, Epoch
  <1>2. /\ root.epoch = 1 => root.state = "Ready"
        /\ root.epoch > 1 => Closes(root.state, jobs[root.epoch].status)
        /\ \A e \in Epoch : /\ e < root.epoch => jobs[e].status \in Terminal
                            /\ e > root.epoch => jobs[e].status = "Absent"
    BY Zenon, EpochsCloseIs DEF EpochsFit
  <1>3. /\ root'.epoch = 1 => root'.state = "Ready"
        /\ root'.epoch > 1 => Closes(root'.state, jobs'[root'.epoch].status)
        /\ \A e \in Epoch : /\ e < root'.epoch => jobs'[e].status \in Terminal
                            /\ e > root'.epoch => jobs'[e].status = "Absent"
    BY Zenon, <1>1, <1>2
  <1> QED
    BY Zenon, <1>3, EpochsCloseNext DEF EpochsFit, Closes

(* The job of the current epoch and the root move together. *)
LEMMA EpochMoves ==
    ASSUME TypeOK, TypeOK', EpochsClose, root.epoch \in Epoch, root'.epoch = root.epoch,
           \A e \in Epoch \ {root.epoch} : jobs'[e] = jobs[e],
           Closes(root'.state, jobs'[root.epoch].status)
    PROVE  EpochsClose'
  <1>1. /\ root.epoch \in Nat /\ root.epoch # 1
        /\ \A e \in Epoch : /\ e \in Nat /\ (e < root.epoch => jobs[e].status \in Terminal)
                            /\ e > root.epoch => jobs[e].status = "Absent"
    BY EpochsCloseIs, Constants DEF EpochsFit
  <1>2. /\ root'.epoch = 1 => root'.state = "Ready"
        /\ root'.epoch > 1 => Closes(root'.state, jobs'[root'.epoch].status)
        /\ \A e \in Epoch : /\ e < root'.epoch => jobs'[e].status \in Terminal
                            /\ e > root'.epoch => jobs'[e].status = "Absent"
    BY <1>1
  <1> QED
    BY Zenon, <1>2, EpochsCloseNext DEF EpochsFit, Closes

---------------------------------------------------------------------------
(* A step that leaves what was learned alone: at most it moves jobs, and the  *)
(* root away from a scan that goes on.                                       *)
Quiet ==
    /\ producer' = producer /\ tools' = tools /\ ledger' = ledger /\ root'.epoch = root.epoch
    /\ \A s \in Source : jobs'[s].status = "Succeeded" <=> jobs[s].status = "Succeeded"
    /\ \A e \in Epoch : jobs'[e].ckpt = jobs[e].ckpt
    /\ \/ root'.state = root.state /\ \A e \in Epoch : jobs'[e].status = jobs[e].status
       \/ /\ root.epoch \in Epoch /\ root.state = "Reconciling" /\ root'.state # "Ready"
          /\ \A e \in Epoch \ {root.epoch} : jobs'[e] = jobs[e]
          /\ Closes(root'.state, jobs'[root.epoch].status)

(* An update of a job that neither publishes nor begins an epoch is quiet. *)
LEMMA QuietJob ==
    ASSUME TypeOK, EpochsClose, UNCHANGED <<producer, tools, ledger>>, NEW j \in Job, NEW st,
           \E at, n, h : JobSet(j, st, at, n, h, jobs[j].ckpt),
           root' \in Root, root'.epoch = root.epoch,
           j \in Source => root' = root /\ (st = "Succeeded" <=> jobs[j].status = "Succeeded"),
           j \in Epoch => \/ root' = root /\ st = jobs[j].status
                          \/ /\ j = root.epoch /\ root.state = "Reconciling"
                             /\ root'.state # "Ready" /\ Closes(root'.state, st)
    PROVE  Quiet
  <1>1. PICK at, n, h : JobSet(j, st, at, n, h, jobs[j].ckpt)
    BY Zenon
  <1>2. jobs'[j].status = st /\ jobs'[j].ckpt = jobs[j].ckpt /\ \A k \in Job \ {j} : jobs'[k] = jobs[k]
    BY <1>1 DEF JobSet, IsJob
  <1>3. \A e \in Epoch : e \in Job /\ e \notin Source
    BY Zenon, Constants DEF Job
  <1>4. \A s \in Source : s \in Job /\ s \notin Epoch
    BY Zenon, <1>3 DEF Job
  <1>5. CASE j \in Source
    BY Zenon, <1>2, <1>3, <1>4, <1>5 DEF Quiet
  <1>6. CASE j \in Epoch
    <2>1. \A s \in Source : jobs'[s] = jobs[s]
      BY Zenon, <1>2, <1>4, <1>6
    <2>2. \A e \in Epoch : jobs'[e].ckpt = jobs[e].ckpt
      BY Zenon, <1>2, <1>3
    <2>3. CASE root' = root /\ st = jobs[j].status
      BY <1>2, <1>3, <2>1, <2>2, <2>3 DEF Quiet
    <2>4. CASE /\ j = root.epoch /\ root.state = "Reconciling"
               /\ root'.state # "Ready" /\ Closes(root'.state, st)
      BY Zenon, <1>2, <1>3, <1>6, <2>1, <2>2, <2>4 DEF Quiet
    <2> QED
      BY Zenon, <1>6, <2>3, <2>4
  <1> QED
    BY Zenon, <1>5, <1>6 DEF Job

(* A step that changes no job is quiet. *)
LEMMA QuietSame ==
    ASSUME UNCHANGED <<producer, tools, ledger, jobs>>, root'.epoch = root.epoch, root'.state = root.state
    PROVE  Quiet
  BY Zenon DEF Quiet

(* Only the current epoch is active, and the root says so. *)
LEMMA ActiveIsCurrent ==
    ASSUME TypeOK, EpochsClose, NEW e \in Epoch, jobs[e].status \in Active
    PROVE  e = root.epoch /\ root.epoch > 1 /\ root.state = "Reconciling"
  <1>1. e \in Nat /\ e >= 2 /\ root.epoch \in Nat /\ root.epoch >= 1
    BY Constants DEF TypeOK, Root
  <1>2. jobs[e].status \notin Terminal /\ jobs[e].status \notin {"Absent", "BlockedCapacity"}
    BY Zenon DEF Active, Terminal
  <1>3. e = root.epoch /\ root.epoch > 1 /\ Closes(root.state, jobs[e].status)
    BY <1>1, <1>2, EpochsCloseIs DEF EpochsFit
  <1> QED
    BY Zenon, <1>3, <1>2 DEF Closes, Terminal

PageStep(w) ==
    /\ worker[w].pc = "planned" /\ worker[w].job \in Epoch /\ Holds(w) /\ Unchanged(w)
    /\ CommitPage(worker[w].job, worker[w].read) /\ UNCHANGED <<producer, pin>>
FeedbackStep(w) ==
    /\ worker[w].pc = "planned" /\ worker[w].job \in Source /\ Holds(w) /\ Unchanged(w)
    /\ worker[w].job \in Permitted /\ root.state = "Ready"
    /\ CommitFeedback(worker[w].job, worker[w].read) /\ UNCHANGED <<producer, pin>>
ControlStep == \E s \in Source, state \in {"active", "narrowed", "revoked"} : Control(s, state)

(* Every step is quiet, or it is one of the four that a learned read depends on. *)
LEMMA StepKinds ==
    ASSUME IInv, [Next]_vars
    PROVE  \/ Quiet \/ ControlStep \/ Resume
           \/ \E w \in Worker : PageStep(w) \/ FeedbackStep(w)
  <1>0. TypeOK /\ TypeOK' /\ EpochsClose /\ ClaimsAreExact
    BY Zenon, TypeStep DEF IInv
  <1> DEFINE G == Quiet \/ ControlStep \/ Resume \/ \E w \in Worker : PageStep(w) \/ FeedbackStep(w)
  <1>00. root \in Root /\ root' \in Root
    BY Zenon, <1>0 DEF TypeOK
  <1>1. ASSUME UNCHANGED <<producer, tools, ledger, jobs, root>> PROVE G
    BY <1>1, QuietSame
  <1>2. ASSUME NEW s \in Source, EnsureIntent(s) PROVE G
    <2>1. jobs[s].status = "Absent" /\ s \in Job /\ UNCHANGED <<producer, tools, ledger, root>>
      BY Zenon, <1>2 DEF EnsureIntent, Job
    <2>2. s \notin Epoch
      BY Zenon, Constants
    <2>3. \E at, n, h : JobSet(s, "Pending", at, n, h, jobs[s].ckpt)
      BY <1>0, <1>2, EnsureIntentIs
    <2> QED
      BY Zenon, <2>1, <2>2, <2>3, <1>0, <1>00, QuietJob
  <1>3. ASSUME BindScope PROVE G
    <2>1. root' = [root EXCEPT !.rev = @ + 1] /\ UNCHANGED <<producer, tools, ledger, jobs>>
      BY <1>3 DEF BindScope
    <2>2. root'.epoch = root.epoch /\ root'.state = root.state
      BY <2>1, <1>00 DEF Root
    <2> QED
      BY <2>1, <2>2, QuietSame
  <1>4. ASSUME NEW w \in Worker, Claim(w) PROVE G
    <2> DEFINE j == worker[w].job
    <2>1. j \in Job /\ UNCHANGED <<producer, tools, ledger, root>>
      BY Zenon, <1>0, <1>4 DEF Claim, ClaimsAreExact, ClaimOK, Busy
    <2>2. CASE ~Claimable(j)
      BY Zenon, <1>1, <1>4, <2>1, <2>2 DEF Claim
    <2>3. CASE Claimable(j)
      <3>1. \E at, n, h : JobSet(j, "Leased", at, n, h, jobs[j].ckpt)
        BY Zenon, <1>0, <1>4, <2>1, <2>3, ClaimIs
      <3>2. jobs[j].status \in Active
        BY Zenon, <2>3 DEF Claimable
      <3>3. j \in Epoch => j = root.epoch /\ root.state = "Reconciling"
        BY Zenon, <3>2, <1>0, ActiveIsCurrent
      <3>4. Closes("Reconciling", "Leased") /\ jobs[j].status # "Succeeded"
        BY <3>2 DEF Closes, Active
      <3>5. Quiet
        BY Zenon, <2>1, <3>1, <3>3, <3>4, <1>0, <1>00, QuietJob
      <3> QED
        BY <3>5
    <2> QED
      BY Zenon, <2>2, <2>3
  <1>5. ASSUME NEW w \in Worker, Fail(w) PROVE G
    <2> DEFINE j == worker[w].job
    <2>1. /\ j \in Job /\ UNCHANGED <<producer, tools, ledger>>
          /\ worker[w].err = "AuthorityDenied" => j \in Source
          /\ Holds(w) => jobs[j].status = "Leased"
      BY Zenon, <1>0, <1>5 DEF Fail, ClaimsAreExact, ClaimOK, Busy, Working
    <2>2. CASE ~(Holds(w) /\ jobs[j].held)
      BY Zenon, <1>1, <1>5, <2>1, <2>2 DEF Fail
    <2>3. CASE Holds(w) /\ jobs[j].held
      <3>1. PICK st \in {"Cancelled", "BlockedCapacity", "RepairRequired", "DeadLetter", "RetryWaiting"}, h \in BOOLEAN :
                  /\ JobSet(j, st, jobs[j].attempts, jobs[j].rev + 1, h, jobs[j].ckpt)
                  /\ \/ j \in Epoch /\ st = "BlockedCapacity" /\ RootSet(root.rev + 1, "Capacity")
                     \/ j \in Epoch /\ st \in {"RepairRequired", "DeadLetter"} /\ RootSet(root.rev + 1, "Repair")
                     \/ (j \in Epoch => st = "RetryWaiting") /\ root' = root
        BY Zenon, <1>0, <1>5, <2>1, <2>3, FailIs
      <3>2. \E at, n, k : JobSet(j, st, at, n, k, jobs[j].ckpt)
        BY Zenon, <3>1
      <3>3. j \in Epoch => j = root.epoch /\ root.state = "Reconciling"
        BY Zenon, <2>1, <2>3, <1>0, LeasedIsCurrent
      <3>4. st # "Succeeded" /\ jobs[j].status # "Succeeded" /\ root'.epoch = root.epoch
        BY Zenon, <2>1, <2>3, <3>1 DEF RootSet
      <3>5. j \in Epoch => root'.state # "Ready" /\ Closes(root'.state, st)
        BY Zenon, <3>1, <3>3 DEF Closes, Active, RootSet
      <3>6. j \in Source => root' = root
        BY <3>1, Constants
      <3>7. Quiet
        BY Zenon, <2>1, <3>2, <3>3, <3>4, <3>5, <3>6, <1>0, <1>00, QuietJob
      <3> QED
        BY <3>7
    <2> QED
      BY Zenon, <2>2, <2>3
  <1>6. ASSUME NEW w \in Worker, Commit(w) PROVE G
    <2>1. worker[w].job \in Job /\ worker[w].pc = "planned" /\ UNCHANGED <<producer, pin>>
      BY Zenon, <1>0, <1>6 DEF Commit, ClaimsAreExact, ClaimOK, Busy
    <2>2. CASE Ineffective(w)
      BY Zenon, <1>1, <2>1, <2>2 DEF Ineffective
    <2>3. CASE ~Ineffective(w)
      BY Zenon, <1>6, <2>1, <2>3, CommitCases DEF PageStep, FeedbackStep
    <2> QED
      BY Zenon, <2>2, <2>3
  <1>7. ASSUME NEW j \in Job, Elapse(j) PROVE G
    <2>1. UNCHANGED <<producer, tools, ledger, root>>
      BY <1>7 DEF Elapse
    <2>2. \E at, n, h : JobSet(j, jobs[j].status, at, n, h, jobs[j].ckpt)
      BY Zenon, <1>0, <1>7, ElapseIs
    <2> QED
      BY Zenon, <2>1, <2>2, <1>0, <1>00, QuietJob
  <1>8. \/ UNCHANGED <<producer, tools, ledger, jobs, root>>
        \/ \E s \in Source : EnsureIntent(s)
        \/ ControlStep \/ Resume \/ BindScope
        \/ \E w \in Worker : Claim(w) \/ Fail(w) \/ Commit(w)
        \/ \E j \in Job : Elapse(j)
    BY Zenon DEF Next, vars, WorkerNext, SourceNext, ControlStep, Archive, Choose, Plan, StoreFault, Crash,
           Status, RaiseCapacity
  <1> QED
    BY <1>1, <1>2, <1>3, <1>4, <1>5, <1>6, <1>7, <1>8

(* The facts of a page's commit: the scan is the current epoch's. *)
LEMMA PageIsCurrent ==
    ASSUME IInv, NEW w \in Worker, PageStep(w)
    PROVE  LET e == worker[w].job
               r == worker[w].read
           IN  /\ e \in Epoch /\ e = root.epoch /\ root.state = "Reconciling"
               /\ r \in Read /\ r.permitted = Permitted /\ CommitPage(e, r)
  <1>1. TypeOK /\ EpochsClose /\ ClaimOK(w) /\ PlanOK(w)
    BY Zenon DEF IInv, PageStep, ClaimsAreExact, PlansAreFenced
  <1>2. jobs[worker[w].job].status = "Leased"
    BY Zenon, <1>1 DEF PageStep, ClaimOK, Working
  <1>3. worker[w].read \in Read
    BY Zenon, <1>1 DEF TypeOK, WorkerRecord
  <1>4. worker[w].job = root.epoch /\ root.state = "Reconciling"
    BY Zenon, <1>1, <1>2, LeasedIsCurrent DEF PageStep
  <1> QED
    BY Zenon, <1>1, <1>3, <1>4 DEF PageStep, PlanOK

(* Every step keeps the clauses on epochs. *)
LEMMA EpochsStep == ASSUME IInv, [Next]_vars PROVE EpochsClose'
  <1>0. TypeOK /\ TypeOK' /\ EpochsClose
    BY Zenon, TypeStep DEF IInv
  <1>00. root.epoch \in Nat /\ root.epoch >= 1 /\ (root.epoch > 1 => root.epoch \in Epoch)
    BY <1>0, Constants DEF TypeOK, Root, Epoch
  <1>1. CASE Quiet
    BY Zenon, <1>0, <1>1, EpochsSame, EpochMoves DEF Quiet
  <1>2. CASE ControlStep
    <2> DEFINE e == root.epoch + 1
    <2>1. BeginEpoch
      BY Zenon, <1>2 DEF ControlStep, Control
    <2>2. /\ e \in Epoch /\ root'.epoch = e /\ root'.state = "Reconciling"
          /\ jobs'[e].status = "Pending"
      BY <2>1, <1>0, BeginEpochIs DEF IsJob
    <2>3. \A j \in Job : j # e =>
                     \/ jobs'[j] = jobs[j] /\ (j = root.epoch => jobs[j].status \in Terminal)
                     \/ j = root.epoch /\ jobs'[j].status = "Cancelled"
      BY Zenon, <2>1, <1>0, BeginEpochIs DEF IsJob
    <2>4. \A k \in Epoch : /\ k \in Nat /\ k \in Job
                           /\ k < root.epoch => jobs[k].status \in Terminal
                           /\ k > root.epoch => jobs[k].status = "Absent"
      BY Zenon, <1>0, EpochsCloseIs, Constants DEF EpochsFit, Job
    <2>5. e > 1 /\ e > root.epoch /\ \A k \in Nat : (k < e <=> k <= root.epoch) /\ (k > e => k > root.epoch)
      BY <1>00
    <2> HIDE DEF e
    <2>6. ASSUME NEW k \in Epoch
          PROVE  /\ k < e => jobs'[k].status \in Terminal
                 /\ k > e => jobs'[k].status = "Absent"
      <3>1. CASE k = root.epoch
        BY Zenon, <3>1, <2>3, <2>4, <2>5, <1>00 DEF Terminal
      <3>2. CASE k # root.epoch /\ k # e
        <4>1. jobs'[k] = jobs[k] /\ k \in Nat
          BY Zenon, <3>2, <2>3, <2>4
        <4>2. k < e => k < root.epoch
          BY <4>1, <3>2, <2>5, <1>00
        <4>3. k > e => k > root.epoch
          BY Zenon, <4>1, <2>5
        <4> QED
          BY Zenon, <4>1, <4>2, <4>3, <2>4
      <3>3. CASE k = e
        BY <3>3, <2>2, <2>4
      <3> QED
        BY Zenon, <3>1, <3>2, <3>3
    <2>7. Closes(root'.state, jobs'[root'.epoch].status) /\ root'.epoch # 1
      BY <2>2, <2>5 DEF Closes, Active
    <2> QED
      BY Zenon, <2>2, <2>6, <2>7, <1>0, EpochsCloseNext DEF EpochsFit, Closes
  <1>3. CASE Resume
    <2>1. root.epoch \in Epoch /\ RootSet(root.rev + 1, "Reconciling")
      BY Zenon, <1>0, <1>3, ResumeIs
    <2>2. jobs'[root.epoch].status = "ReadyToContinue" /\ \A e \in Epoch \ {root.epoch} : jobs'[e] = jobs[e]
      BY Zenon, <1>0, <1>3, ResumeIs DEF JobSet, IsJob, Job
    <2> QED
      BY Zenon, <2>1, <2>2, <1>0, EpochMoves DEF RootSet, Closes, Active
  <1>4. ASSUME NEW w \in Worker, PageStep(w) PROVE EpochsClose'
    <2> DEFINE e == worker[w].job
               r == worker[w].read
    <2>1. e \in Epoch /\ e = root.epoch /\ root.state = "Reconciling" /\ r \in Read /\ CommitPage(e, r)
      BY Zenon, <1>4, PageIsCurrent
    <2> HIDE DEF e, r
    <2>2. CASE Publishes(Ckpt(e))
      <3>1. root'.epoch = root.epoch /\ root'.state = "Ready" /\ jobs'[e].status = "Succeeded"
            /\ \A k \in Epoch \ {e} : jobs'[k] = jobs[k]
        BY Zenon, <2>1, <2>2, <1>0, CommitPageIs DEF RootSet, JobSet, IsJob, Job
      <3> QED
        BY Zenon, <2>1, <3>1, <1>0, EpochMoves DEF Closes
    <2>3. CASE ~Publishes(Ckpt(e))
      <3>1. root' = root /\ jobs'[e].status = "ReadyToContinue"
            /\ \A k \in Epoch \ {e} : jobs'[k] = jobs[k]
        BY Zenon, <2>1, <2>3, <1>0, CommitPageIs DEF JobSet, IsJob, Job
      <3> QED
        BY Zenon, <2>1, <3>1, <1>0, EpochMoves DEF Closes, Active
    <2> QED
      BY Zenon, <2>2, <2>3
  <1>5. ASSUME NEW w \in Worker, FeedbackStep(w) PROVE EpochsClose'
    <2>1. root' = root /\ \A k \in Epoch : jobs'[k] = jobs[k]
      <3>1. \A k \in Epoch : k \in Job /\ k # worker[w].job
        BY <1>5, Constants DEF FeedbackStep, Job
      <3> QED
        BY Zenon, <3>1, <1>0, <1>5, CommitFeedbackIs DEF FeedbackStep, JobSet
    <2> QED
      BY <2>1, <1>0, EpochsSame
  <1> QED
    BY <1>1, <1>2, <1>3, <1>4, <1>5, StepKinds
=============================================================================
