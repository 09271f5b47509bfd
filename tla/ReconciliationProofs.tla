--------------------------- MODULE ReconciliationProofs ---------------------------
(***************************************************************************)
(* Proofs about ProceduralReconciliation, for any sources, tools, workers,  *)
(* limits and environments: the second half of the argument that            *)
(* ReconciliationSteps begins, on the ledger, the checkpoints, the proofs   *)
(* in them and what is ready, and the theorems.                             *)
(***************************************************************************)
EXTENDS ReconciliationSteps

---------------------------------------------------------------------------
(* The entries of a checkpoint. *)
LEMMA ShowsLists == ASSUME NEW c, NEW t, NEW i, Shows(c, t, i) PROVE Lists(c, t, i)
  BY Zenon DEF Shows, Lists

(* A verified entry is listed. *)
LEMMA ListsElement ==
    ASSUME NEW c \in Checkpoint, NEW b
    PROVE  \A p \in c.verified : p.at = b => Lists(c, b[1], b[2])
  <1> SUFFICES ASSUME NEW p \in c.verified, p.at = b PROVE Lists(c, b[1], b[2])
    OBVIOUS
  <1>1. p \in [at : Tool \X Nat, visible : BOOLEAN]
    BY DEF Checkpoint
  <1>2. p = [at |-> p.at, visible |-> p.visible] /\ p.visible \in BOOLEAN /\ p.at \in Tool \X Nat
    BY <1>1
  <1>3. p.at = <<b[1], b[2]>>
    BY <1>2
  <1> QED
    BY <1>2, <1>3 DEF Lists

(* The entries that a page of a tool lists and shows. *)
LEMMA ToolPageEntries ==
    ASSUME TypeOK, NEW c \in Checkpoint, c.tools = Manifest, NEW t \in Tool, NEW P
    PROVE  LET d == ToolPage(c, t, P)
               grown == d.tools[t]
           IN  \A u \in Tool, i \in Nat :
                 /\ Lists(d, u, i) <=> Lists(c, u, i) \/ (u = t /\ i \in 1 .. grown)
                 /\ Shows(d, u, i) <=>
                      \/ Shows(c, u, i)
                      \/ u = t /\ i \in 1 .. grown /\ (i > Len(tools[t]) \/ tools[t][i] \subseteq P)
  <1> DEFINE d == ToolPage(c, t, P)
             g == Grown(t, P)
             seen(i) == Seen(t, i, P)
  <1>1. /\ d.tools = [Manifest EXCEPT ![t] = g] /\ d.verified = c.verified \cup NewEntries(t, P)
        /\ \A p : p \in NewEntries(t, P) <=> \E i \in 1 .. g : p = [at |-> <<t, i>>, visible |-> seen(i)]
    BY ToolPageIs DEF NewEntries
  <1>2. d.tools[t] = g
    BY <1>1, ManifestShape
  <1>3. \A i : seen(i) <=> (i > Len(tools[t]) \/ tools[t][i] \subseteq P)
    BY DEF Seen, Reduced
  <1>4. \A i : seen(i) \in BOOLEAN
    BY DEF Seen
  <1> HIDE DEF d, g, seen
  <1> SUFFICES ASSUME NEW u \in Tool, NEW i \in Nat
               PROVE  /\ Lists(d, u, i) <=> Lists(c, u, i) \/ (u = t /\ i \in 1 .. g)
                      /\ Shows(d, u, i) <=> Shows(c, u, i) \/ (u = t /\ i \in 1 .. g /\ seen(i))
    BY <1>2, <1>3 DEF d
  <1>5. \A v : [at |-> <<u, i>>, visible |-> v] \in d.verified <=>
           \/ [at |-> <<u, i>>, visible |-> v] \in c.verified
           \/ u = t /\ i \in 1 .. g /\ v = seen(i)
    <2> SUFFICES ASSUME NEW v
                 PROVE  (\E k \in 1 .. g : [at |-> <<u, i>>, visible |-> v] = [at |-> <<t, k>>, visible |-> seen(k)])
                           <=> u = t /\ i \in 1 .. g /\ v = seen(i)
      BY Zenon, <1>1
    <2>1. \A k : [at |-> <<u, i>>, visible |-> v] = [at |-> <<t, k>>, visible |-> seen(k)]
              <=> u = t /\ i = k /\ v = seen(k)
      OBVIOUS
    <2> QED
      BY Zenon, <2>1
  <1> QED
    BY Zenon, <1>4, <1>5 DEF Lists, Shows

(* A page publishes the scan, begins it again, takes the next tool, or moves  *)
(* past the last one.                                                        *)
PublishedPage(c, d) ==
    /\ ~Restarts(c) /\ c.cursor = Complete /\ d = c /\ tools' = tools /\ root'.state = "Ready"
RestartedPage(d) ==
    d.cursor = 0 /\ d.verified = {} /\ tools' = tools /\ root'.state = "Reconciling"
TakenPage(c, d) ==
    /\ ~Restarts(c) /\ OnTool(c) /\ d = ToolPage(c, NextTool(c.cursor), Permitted)
    /\ root'.state = "Reconciling"
    /\ tools' = IF Rewrites(NextTool(c.cursor), Permitted)
                THEN [tools EXCEPT ![NextTool(c.cursor)] = Append(@, Rebuilt(NextTool(c.cursor), Permitted))]
                ELSE tools
PassedPage(c, d) ==
    /\ ~Restarts(c) /\ ~OnTool(c) /\ tools' = tools /\ root'.state = "Reconciling"
    /\ d.tools = c.tools /\ d.verified = c.verified
    /\ d.cursor = IF c.cursor <= NTools THEN Skills ELSE Complete

(* A page publishes, starts again, takes a tool or passes the last. *)
LEMMA PageKinds ==
    ASSUME IInv, NEW w \in Worker, PageStep(w)
    PROVE  LET e == root.epoch
               c == Ckpt(e)
               d == jobs'[e].ckpt
           IN  /\ e \in Epoch /\ root.state = "Reconciling" /\ root'.epoch = e /\ d \in Checkpoint
               /\ producer' = producer /\ ledger' = ledger /\ \A k \in Job \ {e} : jobs'[k] = jobs[k]
               /\ PublishedPage(c, d) \/ RestartedPage(d) \/ TakenPage(c, d) \/ PassedPage(c, d)
  <1> DEFINE e == root.epoch
             r == worker[w].read
             c == Ckpt(e)
             d == jobs'[e].ckpt
  <1>0. TypeOK
    BY Zenon DEF IInv
  <1>1. /\ e \in Epoch /\ root.state = "Reconciling" /\ r \in Read /\ r.permitted = Permitted
        /\ CommitPage(e, r) /\ producer' = producer
    BY Zenon, PageIsCurrent DEF PageStep
  <1>2. c \in Checkpoint /\ e \in Job
    BY Zenon, <1>0, <1>1, CkptShapes DEF Job
  <1> HIDE DEF c, d, e, r
  <1>3. /\ ledger' = ledger
        /\ tools' = IF ~Restarts(c) /\ OnTool(c) /\ Rewrites(NextTool(c.cursor), Permitted)
                    THEN [tools EXCEPT ![NextTool(c.cursor)] = Append(@, Rebuilt(NextTool(c.cursor), Permitted))]
                    ELSE tools
    BY <1>1 DEF CommitPage, c
  <1>4. CASE Publishes(c)
    <2>1. /\ root'.epoch = e /\ root'.state = "Ready" /\ \A k \in Job \ {e} : jobs'[k] = jobs[k]
          /\ d = jobs[e].ckpt /\ d \in Checkpoint
      BY Zenon, <1>0, <1>1, <1>2, <1>4, CommitPageIs, JobIs DEF RootSet, JobSet, IsJob, c, d, e
    <2>2. ~Restarts(c) /\ c.cursor = Complete /\ ~OnTool(c)
      BY <1>4, Constants DEF Publishes, OnTool
    <2>3. c = jobs[e].ckpt
      BY <2>2, <1>0, <1>1, Constants, CkptShapes DEF c, Ckpt
    <2> QED
      BY Zenon, <2>1, <2>2, <2>3, <1>1, <1>3 DEF PublishedPage, c, d, e
  <1>5. CASE ~Publishes(c)
    <2>1. root' = root /\ d = Page(c, Permitted) /\ \A k \in Job \ {e} : jobs'[k] = jobs[k]
      BY Zenon, <1>0, <1>1, <1>5, CommitPageIs DEF JobSet, IsJob, c, d, e
    <2>2. d \in Checkpoint
      BY <1>0, <1>2, <2>1, PageShape
    <2>3. CASE Restarts(c)
      <3>1. d = BeginCkpt
        BY <2>1, <2>3 DEF Page
      <3>2. RestartedPage(d)
        BY <3>1, <2>1, <2>3, <1>0, <1>1, <1>3, CkptShapes DEF RestartedPage
      <3> QED
        BY Zenon, <3>2, <2>1, <2>2, <1>1, <1>3 DEF c, d, e
    <2>4. CASE ~Restarts(c) /\ OnTool(c)
      <3>1. TakenPage(c, d)
        BY <2>1, <2>4, <1>1, <1>3 DEF Page, TakenPage
      <3> QED
        BY Zenon, <3>1, <2>1, <2>2, <1>1, <1>3 DEF c, d, e
    <2>5. CASE ~Restarts(c) /\ ~OnTool(c)
      <3>1. d = [c EXCEPT !.cursor = IF c.cursor <= NTools THEN Skills ELSE Complete]
        BY <2>1, <2>5 DEF Page
      <3>2. /\ d.tools = c.tools /\ d.verified = c.verified
            /\ d.cursor = IF c.cursor <= NTools THEN Skills ELSE Complete
        BY <3>1, <1>2 DEF Checkpoint
      <3>3. PassedPage(c, d)
        BY Zenon, <3>2, <2>1, <2>5, <1>1, <1>3 DEF PassedPage
      <3> QED
        BY Zenon, <3>3, <2>1, <2>2, <1>1, <1>3 DEF c, d, e
    <2> QED
      BY Zenon, <2>3, <2>4, <2>5
  <1> QED
    BY Zenon, <1>4, <1>5

(* The checkpoint a page starts from, the very first one included. *)
LEMMA ScanFacts ==
    ASSUME IInv, root.epoch \in Epoch, root.state = "Reconciling"
    PROVE  LET c == Ckpt(root.epoch)
           IN  /\ c \in Checkpoint /\ Covers(c)
               /\ c.cursor > 0 => \A t \in Tool : c.tools[t] <= Len(tools[t])
               /\ \A t \in Tool, i \in Nat : Shows(c, t, i) => tools[t][i] \subseteq Permitted
               /\ \A t \in Tool : tools[t] # <<>> /\ t <= c.cursor /\ c.tools[t] = Len(tools[t])
                     => /\ Shows(c, t, Len(tools[t])) /\ Last(tools[t]) = Evidence(t) \cap Permitted
  <1> DEFINE c == Ckpt(root.epoch)
  <1>0. TypeOK /\ CheckpointsCover /\ ProofsAreTrue /\ ScannedIsComplete
    BY DEF IInv
  <1>1. c \in Checkpoint /\ root.epoch > 1
    BY <1>0, CkptShapes, Constants
  <1>2. CASE c = Current
    <2>1. Covers(Current)
      BY Zenon, <1>0 DEF CheckpointsCover, Current
    <2>2. /\ Current.cursor > 0 => \A t \in Tool : Current.tools[t] <= Len(tools[t])
          /\ \A t \in Tool, i \in Nat : Shows(Current, t, i) => tools[t][i] \subseteq Permitted
      BY <1>0, <1>1 DEF ProofsAreTrue
    <2>3. \A t \in Tool : tools[t] # <<>> /\ t <= Current.cursor /\ Current.tools[t] = Len(tools[t])
             => /\ Shows(Current, t, Len(tools[t])) /\ Last(tools[t]) = Evidence(t) \cap Permitted
      BY Zenon, <1>0, <1>1 DEF ScannedIsComplete
    <2> HIDE DEF c
    <2>4. /\ c \in Checkpoint /\ Covers(c)
          /\ c.cursor > 0 => \A t \in Tool : c.tools[t] <= Len(tools[t])
          /\ \A t \in Tool, i \in Nat : Shows(c, t, i) => tools[t][i] \subseteq Permitted
          /\ \A t \in Tool : tools[t] # <<>> /\ t <= c.cursor /\ c.tools[t] = Len(tools[t])
                => /\ Shows(c, t, Len(tools[t])) /\ Last(tools[t]) = Evidence(t) \cap Permitted
      BY Zenon, <1>1, <1>2, <2>1, <2>2, <2>3
    <2> QED
      BY Zenon, <2>4 DEF c
  <1>3. CASE c = BeginCkpt
    <2>1. c.cursor = 0 /\ c.verified = {}
      BY <1>0, <1>3, CkptShapes
    <2>2. \A t \in Tool : ~(t <= 0)
      BY Constants
    <2> HIDE DEF c
    <2> QED
      BY <1>1, <2>1, <2>2 DEF Covers, Shows, Lists, c
  <1> QED
    BY Zenon, <1>2, <1>3 DEF Ckpt, Current

---------------------------------------------------------------------------
(* The permissions depend on the producers alone. *)
LEMMA PermittedSame == producer' = producer => Permitted' = Permitted
  BY DEF Permitted

(* The evidence depends on the tools alone. *)
LEMMA EvidenceSame == tools' = tools => \A t : Evidence(t)' = Evidence(t)
  BY DEF Evidence

(* The types of an entry of the ledger. *)
LEMMA LedgerIs ==
    ASSUME TypeOK, NEW s \in Source
    PROVE  ledger[s].epoch \in Nat /\ ledger[s].at \in Applied /\ DOMAIN ledger[s].at \subseteq Tool
  <1>1. ledger[s].epoch \in Nat /\ ledger[s].at \in Applied
    BY Constants DEF TypeOK
  <1> QED
    BY Zenon, <1>1 DEF Applied

(* What a page does to the tools: each keeps its revisions and its evidence. *)
LEMMA PageTools ==
    ASSUME IInv, NEW w \in Worker, PageStep(w), NEW u \in Tool
    PROVE  /\ Evidence(u)' = Evidence(u)
           /\ \/ tools'[u] = tools[u]
              \/ /\ u = NextTool(Ckpt(root.epoch).cursor) /\ Rewrites(u, Permitted)
                 /\ tools'[u] = Append(tools[u], Rebuilt(u, Permitted))
  <1> DEFINE c == Ckpt(root.epoch)
             d == jobs'[root.epoch].ckpt
             t == NextTool(c.cursor)
             x == Rebuilt(t, Permitted)
  <1>0. TypeOK /\ tools \in [Tool -> Seq(SUBSET Source)]
    BY DEF IInv, TypeOK
  <1>1. root.epoch \in Epoch /\ (PublishedPage(c, d) \/ RestartedPage(d) \/ TakenPage(c, d) \/ PassedPage(c, d))
    BY Zenon, PageKinds
  <1>2. CASE tools' = tools
    BY Zenon, <1>2, EvidenceSame
  <1>3. CASE tools' # tools
    <2>1. OnTool(c) /\ Rewrites(t, Permitted) /\ tools' = [tools EXCEPT ![t] = Append(@, x)]
      BY Zenon, <1>1, <1>3 DEF PublishedPage, RestartedPage, TakenPage, PassedPage
    <2>2. t \in Tool /\ x \in SUBSET Source /\ x \subseteq Evidence(t)
      <3>1. t \in Tool
        BY Zenon, <1>0, <1>1, <2>1, CkptShapes, NextToolIsNext
      <3> QED
        BY Zenon, <3>1, <1>0, BodyShapes DEF Rebuilt, Reduced
    <2> HIDE DEF x, t
    <2>3. tools'[t] = Append(tools[t], x) /\ (u # t => tools'[u] = tools[u]) /\ tools[t] \in Seq(SUBSET Source)
      BY <1>0, <2>1, <2>2
    <2>4. Evidence(u)' = UNION Range(tools'[u]) /\ Evidence(u) = UNION Range(tools[u])
      BY Zenon DEF Evidence
    <2>5. CASE u = t
      <3>1. tools'[u] = Append(tools[u], x) /\ tools[u] \in Seq(SUBSET Source) /\ x \subseteq Evidence(u)
        BY Zenon, <2>2, <2>3, <2>5
      <3>2. Evidence(u)' = Evidence(u)
        <4>1. UNION Range(Append(tools[u], x)) = (UNION Range(tools[u])) \cup x
          BY Zenon, <3>1, <2>2, AppendEvidence
        <4>2. Evidence(u)' = Evidence(u) \cup x
          BY Zenon, <4>1, <3>1, <2>4
        <4> QED
          BY <4>2, <3>1
      <3> QED
        BY <3>1, <3>2, <2>1, <2>5 DEF x, t
    <2>6. CASE u # t
      BY Zenon, <2>3, <2>4, <2>6
    <2> QED
      BY <2>5, <2>6
  <1> QED
    BY Zenon, <1>2, <1>3

(* The ledger stays exact where the evidence stays the same. *)
LEMMA LedgerKept ==
    ASSUME IInv, [Next]_vars, producer' = producer, ledger' = ledger, root'.epoch = root.epoch,
           \A s \in Source : jobs'[s].status = "Succeeded" <=> jobs[s].status = "Succeeded",
           \A t \in Tool : Evidence(t)' = Evidence(t)
    PROVE  LedgerIsExact'
  <1>0. TypeOK /\ TypeOK' /\ LedgerIsExact /\ Permitted' = Permitted
    BY Zenon, TypeStep, PermittedSame DEF IInv
  <1>1. \A t \in Tool : /\ Len(tools[t]) \in Nat /\ Len(tools'[t]) \in Nat /\ Len(tools'[t]) >= Len(tools[t])
                        /\ \A i \in 1 .. Len(tools[t]) : tools'[t][i] = tools[t][i]
    BY <1>0, ToolsStep DEF TypeOK
  <1>2. ASSUME NEW s \in Source, ledger[s].epoch = root.epoch, NEW t \in DOMAIN ledger[s].at
        PROVE  ledger[s].at[t] \in 1 .. Len(tools'[t]) /\ tools'[t][ledger[s].at[t]] \subseteq Permitted
    <2>1. t \in Tool
      BY <1>0, LedgerIs
    <2>2. ledger[s].at[t] \in 1 .. Len(tools[t]) /\ tools[t][ledger[s].at[t]] \subseteq Permitted
      BY Zenon, <1>0, <1>2 DEF LedgerIsExact
    <2> QED
      BY <2>1, <2>2, <1>1
  <1>3. /\ \A s \in Source : /\ ledger[s].epoch <= root.epoch
                             /\ ledger[s].epoch > 0 <=> jobs[s].status = "Succeeded"
        /\ \A t \in Tool, s \in Source : s \in Evidence(t) <=> ledger[s].epoch > 0 /\ t \in Feeds[s]
    BY Zenon, <1>0 DEF LedgerIsExact
  <1>4. \A t \in Tool, s \in Source : s \in Evidence(t)' <=> ledger'[s].epoch > 0 /\ t \in Feeds[s]
    BY Zenon, <1>3
  <1>5. \A s \in Source :
         /\ ledger'[s].epoch <= root'.epoch
         /\ ledger'[s].epoch > 0 <=> jobs'[s].status = "Succeeded"
         /\ ledger'[s].epoch = root'.epoch =>
              \A t \in DOMAIN ledger'[s].at :
                 ledger'[s].at[t] \in 1 .. Len(tools'[t]) /\ tools'[t][ledger'[s].at[t]] \subseteq Permitted'
    BY Zenon, <1>0, <1>2, <1>3
  <1> QED
    BY <1>4, <1>5 DEF LedgerIsExact

(* The revision that applied feedback appends holds the feedback and all that *)
(* is permitted of the evidence so far: the pins of what the worker read and  *)
(* the open root leave it nothing stale to merge.                            *)
LEMMA MergedIs ==
    ASSUME IInv, NEW w \in Worker, FeedbackStep(w), NEW t \in Feeds[worker[w].job]
    PROVE  Merged(worker[w].job, t, worker[w].read) = {worker[w].job} \cup (Evidence(t) \cap Permitted)
  <1> DEFINE j == worker[w].job
             r == worker[w].read
  <1>0. TypeOK /\ PlanOK(w) /\ LedgerIsExact /\ ReadyIsComplete /\ root.state = "Ready"
    BY Zenon DEF IInv, FeedbackStep, PlansAreFenced
  <1>1. j \in Source /\ t \in Tool /\ tools[t] \in Seq(SUBSET Source)
    BY Zenon, <1>0, Constants DEF FeedbackStep, TypeOK
  <1>2. r.tools = Manifest /\ \A s \in DOMAIN r.src : r.src[s] = pin[s]
    BY Zenon DEF FeedbackStep, Unchanged
  <1>3. r.tools[t] = Len(tools[t]) /\ Len(tools[t]) \in Nat
    BY <1>1, <1>2 DEF Manifest
  <1>4. Merged(j, t, r) = {j} \cup IF r.tools[t] = 0 THEN {} ELSE tools[t][r.tools[t]] \cap r.permitted
    BY Zenon DEF Merged, Reduced
  <1>5. CASE r.tools[t] = 0
    <2>1. Evidence(t) = {}
      <3>1. \A s : s \in Evidence(t) <=> \E i \in 1 .. Len(tools[t]) : s \in tools[t][i]
        BY Zenon, <1>0, <1>1, EvidenceElements
      <3>2. 1 .. Len(tools[t]) = {}
        BY <1>3, <1>5
      <3> QED
        BY Zenon, <3>1, <3>2
    <2> QED
      BY Zenon, <2>1, <1>4, <1>5
  <1>6. CASE r.tools[t] # 0
    <2> DEFINE last == tools[t][r.tools[t]]
    <2>1. last \subseteq DOMAIN r.src
      BY <1>0, <1>1, <1>3, <1>6 DEF PlanOK
    <2>2. \A s \in DOMAIN r.src : s \in r.permitted <=> s \in Permitted
      BY Zenon, <1>0, <1>2 DEF PlanOK
    <2>3. tools[t] # <<>> /\ last = Last(tools[t])
      BY <1>1, <1>3, <1>6 DEF Last
    <2>4. last = {s \in Permitted : ledger[s].epoch > 0 /\ t \in Feeds[s]}
      BY Zenon, <1>0, <1>1, <2>3 DEF ReadyIsComplete
    <2>5. \A s \in Source : s \in Evidence(t) <=> ledger[s].epoch > 0 /\ t \in Feeds[s]
      BY <1>0, <1>1 DEF LedgerIsExact
    <2>6. Permitted \subseteq Source
      BY Zenon DEF Permitted
    <2>7. last = Evidence(t) \cap Permitted
      BY Zenon, <2>4, <2>5, <2>6
    <2>8. last \cap r.permitted = last
      BY Zenon, <2>1, <2>2, <2>7
    <2> HIDE DEF last
    <2> QED
      BY Zenon, <1>4, <1>6, <2>7, <2>8 DEF last
  <1> QED
    BY Zenon, <1>5, <1>6

(* What a committed feedback changes. *)
LEMMA FeedbackIs ==
    ASSUME IInv, NEW w \in Worker, FeedbackStep(w)
    PROVE  LET j == worker[w].job
           IN  /\ j \in Source /\ j \in Permitted /\ root.state = "Ready" /\ root' = root /\ producer' = producer
               /\ jobs'[j].status = "Succeeded" /\ \A k \in Job \ {j} : jobs'[k] = jobs[k]
               /\ ledger[j].epoch = 0 /\ ledger'[j].epoch = root.epoch
               /\ ledger'[j].at = [t \in Feeds[j] |-> Len(tools[t]) + 1]
               /\ \A u \in Source \ {j} : ledger'[u] = ledger[u]
               /\ \A t \in Tool :
                     /\ t \in Feeds[j] => tools'[t] = Append(tools[t], {j} \cup (Evidence(t) \cap Permitted))
                     /\ t \notin Feeds[j] => tools'[t] = tools[t]
  <1> DEFINE j == worker[w].job
             r == worker[w].read
  <1>0. TypeOK /\ ClaimOK(w) /\ LedgerIsExact
    BY Zenon DEF IInv, FeedbackStep, ClaimsAreExact
  <1>1. /\ j \in Source /\ j \in Job /\ j \in Permitted /\ root.state = "Ready" /\ producer' = producer
        /\ CommitFeedback(j, r)
    BY Zenon DEF FeedbackStep, Job
  <1>2. jobs[j].status = "Leased"
    BY Zenon, <1>0 DEF FeedbackStep, ClaimOK, Working
  <1>3. ledger[j].epoch = 0
    <2>1. ~(ledger[j].epoch > 0) /\ ledger[j].epoch \in Nat
      BY Zenon, <1>0, <1>1, <1>2, LedgerIs DEF LedgerIsExact
    <2> QED
      BY <2>1
  <1>4. root' = root /\ jobs'[j].status = "Succeeded" /\ \A k \in Job \ {j} : jobs'[k] = jobs[k]
    BY Zenon, <1>0, <1>1, CommitFeedbackIs DEF JobSet, IsJob
  <1>5. /\ ledger'[j].epoch = root.epoch /\ ledger'[j].at = [t \in Feeds[j] |-> Len(tools[t]) + 1]
        /\ \A u \in Source \ {j} : ledger'[u] = ledger[u]
    BY Zenon, <1>0, <1>1, LedgerShape
  <1>6. \A t \in Tool : tools'[t] = IF t \in Feeds[j] THEN Append(tools[t], Merged(j, t, r)) ELSE tools[t]
    BY Zenon, <1>1 DEF CommitFeedback
  <1>7. \A t \in Feeds[j] : Merged(j, t, r) = {j} \cup (Evidence(t) \cap Permitted)
    BY MergedIs
  <1> HIDE DEF j, r
  <1>8. \A t \in Tool :
           /\ t \in Feeds[j] => tools'[t] = Append(tools[t], {j} \cup (Evidence(t) \cap Permitted))
           /\ t \notin Feeds[j] => tools'[t] = tools[t]
    BY Zenon, <1>6, <1>7
  <1> QED
    BY Zenon, <1>1, <1>3, <1>4, <1>5, <1>8 DEF j

(* ... and what it does to the revisions of each tool. *)
LEMMA FeedbackTools ==
    ASSUME IInv, NEW w \in Worker, FeedbackStep(w), NEW t \in Tool
    PROVE  LET j == worker[w].job
           IN  /\ t \notin Feeds[j] => tools'[t] = tools[t] /\ Evidence(t)' = Evidence(t)
               /\ t \in Feeds[j] =>
                    /\ Len(tools[t]) \in Nat /\ Len(tools'[t]) = Len(tools[t]) + 1
                    /\ tools'[t][Len(tools[t]) + 1] = {j} \cup (Evidence(t) \cap Permitted)
                    /\ Evidence(t)' = {j} \cup Evidence(t)
  <1> DEFINE j == worker[w].job
             x == {j} \cup (Evidence(t) \cap Permitted)
  <1>0. TypeOK
    BY Zenon DEF IInv
  <1>1. j \in Source
    BY Zenon DEF FeedbackStep
  <1>2. tools[t] \in Seq(SUBSET Source) /\ x \in SUBSET Source
    BY <1>0, <1>1 DEF TypeOK, Permitted
  <1>3. /\ t \in Feeds[j] => tools'[t] = Append(tools[t], x)
        /\ t \notin Feeds[j] => tools'[t] = tools[t]
    BY Zenon, FeedbackIs
  <1>4. Evidence(t)' = UNION Range(tools'[t]) /\ Evidence(t) = UNION Range(tools[t])
    BY DEF Evidence
  <1>5. CASE t \notin Feeds[j]
    BY Zenon, <1>3, <1>4, <1>5
  <1>6. CASE t \in Feeds[j]
    <2> HIDE DEF x
    <2>1. /\ Len(Append(tools[t], x)) = Len(tools[t]) + 1 /\ Append(tools[t], x)[Len(tools[t]) + 1] = x
          /\ UNION Range(Append(tools[t], x)) = (UNION Range(tools[t])) \cup x
      BY <1>2, AppendEvidence
    <2>2. Len(tools[t]) \in Nat
      BY <1>2
    <2>3. Evidence(t)' = Evidence(t) \cup x
      BY Zenon, <2>1, <1>3, <1>4, <1>6
    <2>4. Evidence(t)' = {j} \cup Evidence(t)
      BY Zenon, <2>3 DEF x
    <2>5. Len(tools'[t]) = Len(tools[t]) + 1 /\ tools'[t][Len(tools[t]) + 1] = x
      BY Zenon, <2>1, <1>3, <1>6
    <2> QED
      BY Zenon, <2>2, <2>4, <2>5, <1>6 DEF x
  <1> QED
    BY <1>5, <1>6

(* Every step keeps the ledger exact. *)
LEMMA LedgerStep == ASSUME IInv, [Next]_vars PROVE LedgerIsExact'
  <1>0. TypeOK /\ TypeOK' /\ LedgerIsExact
    BY Zenon, TypeStep DEF IInv
  <1>00. root.epoch \in Nat /\ root.epoch >= 1
    BY <1>0, Constants DEF TypeOK, Root
  <1>1. CASE Quiet
    BY Zenon, <1>1, LedgerKept, EvidenceSame DEF Quiet
  <1>2. CASE Resume
    <2>1. producer' = producer /\ ledger' = ledger /\ tools' = tools
      BY Zenon, <1>2 DEF Resume
    <2>2. root'.epoch = root.epoch /\ \A s \in Source : jobs'[s] = jobs[s]
      <3>1. \A s \in Source : s \in Job /\ s # root.epoch
        BY Zenon, <1>0, <1>2, ResumeIs, Constants DEF Job
      <3> QED
        BY Zenon, <3>1, <1>0, <1>2, ResumeIs DEF RootSet, JobSet
    <2> QED
      BY Zenon, <2>1, <2>2, LedgerKept, EvidenceSame
  <1>3. ASSUME NEW w \in Worker, PageStep(w) PROVE LedgerIsExact'
    <2>1. /\ producer' = producer /\ ledger' = ledger /\ root'.epoch = root.epoch
          /\ \A s \in Source : jobs'[s] = jobs[s]
      <3>1. root.epoch \in Epoch /\ \A s \in Source : s \in Job /\ s # root.epoch
        BY Zenon, <1>3, PageKinds, Constants DEF Job
      <3> QED
        BY Zenon, <3>1, <1>3, PageKinds
    <2>2. \A t \in Tool : Evidence(t)' = Evidence(t)
      BY Zenon, <1>3, PageTools
    <2> QED
      BY Zenon, <2>1, <2>2, LedgerKept
  <1>4. CASE ControlStep
    <2>1. tools' = tools /\ ledger' = ledger /\ BeginEpoch
      BY Zenon, <1>4 DEF ControlStep, Control
    <2>2. root'.epoch = root.epoch + 1 /\ \A s \in Source : jobs'[s] = jobs[s]
      <3>1. \A s \in Source : s \in Job /\ s # root.epoch + 1 /\ s # root.epoch
        <4>1. root.epoch \in 0 .. MaxEpoch /\ root.epoch + 1 \in 0 .. MaxEpoch
          <5>1. root.epoch + 1 <= MaxEpoch
            BY Zenon, <2>1 DEF BeginEpoch
          <5> QED
            BY <5>1, <1>00, Constants
        <4> QED
          BY Zenon, <4>1, ReconciliationAssumption DEF Job
      <3> QED
        BY Zenon, <3>1, <2>1, <1>0, BeginEpochIs
    <2>3. \A s \in Source : ledger[s].epoch \in Nat /\ ledger[s].epoch <= root.epoch
      BY Zenon, <1>0, LedgerIs DEF LedgerIsExact
    <2>4. \A s \in Source : ledger'[s].epoch <= root'.epoch /\ ledger'[s].epoch # root'.epoch
      BY <2>1, <2>2, <2>3, <1>00
    <2>5. \A s \in Source : ledger'[s].epoch > 0 <=> jobs'[s].status = "Succeeded"
      BY Zenon, <2>1, <2>2, <1>0 DEF LedgerIsExact
    <2>6. \A t \in Tool, s \in Source : s \in Evidence(t)' <=> ledger'[s].epoch > 0 /\ t \in Feeds[s]
      BY Zenon, <2>1, <1>0, EvidenceSame DEF LedgerIsExact
    <2> QED
      BY Zenon, <2>4, <2>5, <2>6 DEF LedgerIsExact
  <1>5. ASSUME NEW w \in Worker, FeedbackStep(w) PROVE LedgerIsExact'
    <2>1. PICK j \in Source :
               /\ j = worker[w].job /\ j \in Permitted /\ root' = root /\ producer' = producer
               /\ jobs'[j].status = "Succeeded" /\ \A k \in Job \ {j} : jobs'[k] = jobs[k]
               /\ ledger[j].epoch = 0 /\ ledger'[j].epoch = root.epoch
               /\ ledger'[j].at = [t \in Feeds[j] |-> Len(tools[t]) + 1]
               /\ \A u \in Source \ {j} : ledger'[u] = ledger[u]
      BY Zenon, <1>5, FeedbackIs
    <2>2. Permitted' = Permitted /\ \A s \in Source : s \in Job
      BY Zenon, <2>1, PermittedSame DEF Job
    <2>3. ASSUME NEW t \in Tool
          PROVE  /\ t \notin Feeds[j] => tools'[t] = tools[t] /\ Evidence(t)' = Evidence(t)
                 /\ t \in Feeds[j] => /\ Len(tools[t]) \in Nat /\ Len(tools'[t]) = Len(tools[t]) + 1
                                      /\ tools'[t][Len(tools[t]) + 1] \subseteq Permitted
                                      /\ Evidence(t)' = {j} \cup Evidence(t)
      BY <1>5, <2>1, FeedbackTools
    <2>4. \A t \in Tool : /\ Len(tools[t]) \in Nat /\ Len(tools'[t]) \in Nat /\ Len(tools'[t]) >= Len(tools[t])
                          /\ \A i \in 1 .. Len(tools[t]) : tools'[t][i] = tools[t][i]
      BY <1>0, ToolsStep DEF TypeOK
    <2>5. ASSUME NEW s \in Source
          PROVE  /\ ledger'[s].epoch <= root'.epoch
                 /\ ledger'[s].epoch > 0 <=> jobs'[s].status = "Succeeded"
      <3>1. CASE s = j
        BY <3>1, <2>1, <1>00
      <3>2. CASE s # j
        BY Zenon, <3>2, <2>1, <2>2, <1>0 DEF LedgerIsExact
      <3> QED
        BY Zenon, <3>1, <3>2
    <2>6. ASSUME NEW s \in Source, ledger'[s].epoch = root'.epoch, NEW t \in DOMAIN ledger'[s].at
          PROVE  ledger'[s].at[t] \in 1 .. Len(tools'[t]) /\ tools'[t][ledger'[s].at[t]] \subseteq Permitted'
      <3>1. CASE s = j
        <4>1. t \in Feeds[j] /\ t \in Tool /\ ledger'[s].at[t] = Len(tools[t]) + 1
          BY Zenon, <3>1, <2>1, <2>6, Constants
        <4> QED
          BY <4>1, <2>2, <2>3
      <3>2. CASE s # j
        <4>1. ledger'[s] = ledger[s] /\ ledger[s].epoch = root.epoch
          BY Zenon, <3>2, <2>1, <2>6
        <4>2. t \in Tool /\ ledger[s].at[t] \in 1 .. Len(tools[t]) /\ tools[t][ledger[s].at[t]] \subseteq Permitted
          BY Zenon, <4>1, <2>6, <1>0, LedgerIs DEF LedgerIsExact
        <4> QED
          BY <4>1, <4>2, <2>2, <2>4
      <3> QED
        BY Zenon, <3>1, <3>2
    <2>7. ASSUME NEW t \in Tool, NEW s \in Source
          PROVE  s \in Evidence(t)' <=> ledger'[s].epoch > 0 /\ t \in Feeds[s]
      <3>1. s \in Evidence(t) <=> ledger[s].epoch > 0 /\ t \in Feeds[s]
        BY Zenon, <1>0 DEF LedgerIsExact
      <3>2. CASE s = j
        BY <3>1, <3>2, <2>1, <2>3, <1>00
      <3>3. CASE s # j
        BY Zenon, <3>1, <3>3, <2>1, <2>3
      <3> QED
        BY Zenon, <3>2, <3>3
    <2> QED
      BY <2>5, <2>6, <2>7 DEF LedgerIsExact
  <1> QED
    BY <1>1, <1>2, <1>3, <1>4, <1>5, StepKinds

(* The checkpoints of the epochs: the step leaves them alone, or the current  *)
(* epoch's one is new, or a page wrote it.                                    *)
LEMMA CheckpointMoves ==
    ASSUME IInv, [Next]_vars
    PROVE  \/ \A e \in Epoch : jobs'[e].ckpt = jobs[e].ckpt
           \/ /\ root'.epoch \in Epoch /\ \A e \in Epoch \ {root'.epoch} : jobs'[e].ckpt = jobs[e].ckpt
              /\ jobs'[root'.epoch].ckpt.cursor = 0 /\ jobs'[root'.epoch].ckpt.verified = {}
              /\ root'.state = "Reconciling"
           \/ \E w \in Worker : PageStep(w)
  <1>0. TypeOK
    BY Zenon DEF IInv
  <1>1. CASE Quiet
    BY Zenon, <1>1 DEF Quiet
  <1>2. CASE Resume
    BY Zenon, <1>0, <1>2, ResumeIs DEF RootSet, JobSet, IsJob, Job
  <1>3. CASE ControlStep
    <2>1. BeginEpoch
      BY Zenon, <1>3 DEF ControlStep, Control
    <2>2. /\ root'.epoch \in Epoch /\ root'.state = "Reconciling"
          /\ jobs'[root'.epoch].ckpt = NoCkpt
          /\ \A j \in Job : j # root'.epoch => jobs'[j].ckpt = jobs[j].ckpt
      BY Zenon, <2>1, <1>0, BeginEpochIs DEF IsJob
    <2> QED
      BY <2>2 DEF Job, NoCkpt
  <1>4. ASSUME NEW w \in Worker, FeedbackStep(w) PROVE \A e \in Epoch : jobs'[e].ckpt = jobs[e].ckpt
    <2>1. worker[w].job \in Source /\ \A k \in Job \ {worker[w].job} : jobs'[k] = jobs[k]
      BY Zenon, <1>4, FeedbackIs
    <2>2. \A e \in Epoch : e \in Job /\ e # worker[w].job
      BY Zenon, <2>1, Constants DEF Job
    <2> QED
      BY Zenon, <2>1, <2>2
  <1> QED
    BY Zenon, <1>1, <1>2, <1>3, <1>4, StepKinds

(* A scan that starts covers nothing, and claims nothing. *)
LEMMA EmptyCovers ==
    ASSUME NEW c, c.cursor = 0, c.verified = {}
    PROVE  Covers(c) /\ \A t \in Tool : ~(t <= c.cursor) /\ \A i \in Nat : ~Shows(c, t, i)
  <1>1. \A t \in Tool : ~(t <= 0)
    BY Constants
  <1> QED
    BY Zenon, <1>1 DEF Covers, Lists, Shows

(* A page that takes a tool, a page that passes the last one. *)
LEMMA TakenIs ==
    ASSUME TypeOK, NEW c \in Checkpoint, NEW d, TakenPage(c, d)
    PROVE  LET t == NextTool(c.cursor)
           IN  /\ t \in Tool /\ t > c.cursor /\ tools[t] # <<>> /\ c.tools = Manifest
               /\ \A u \in Tool : u > c.cursor /\ u < t => tools[u] = <<>>
               /\ d.cursor = t /\ d.tools \in [Tool -> Nat]
               /\ \A u \in Tool : d.tools[u] = IF u = t THEN Grown(t, Permitted) ELSE Len(tools[u])
               /\ \A u \in Tool, i \in Nat :
                    /\ Lists(d, u, i) <=> Lists(c, u, i) \/ (u = t /\ i \in 1 .. Grown(t, Permitted))
                    /\ Shows(d, u, i) <=>
                         \/ Shows(c, u, i)
                         \/ /\ u = t /\ i \in 1 .. Grown(t, Permitted)
                            /\ i > Len(tools[t]) \/ tools[t][i] \subseteq Permitted
  <1> DEFINE t == NextTool(c.cursor)
  <1>1. c.tools = Manifest /\ OnTool(c) /\ d = ToolPage(c, t, Permitted)
    BY Zenon DEF TakenPage, Restarts, SnapshotChanged
  <1>2. /\ t \in Tool /\ t > c.cursor /\ tools[t] # <<>>
        /\ \A u \in Tool : u > c.cursor /\ u < t => tools[u] = <<>>
    BY Zenon, <1>1, NextToolIsNext
  <1> HIDE DEF t
  <1>3. d \in Checkpoint /\ d.cursor = t /\ d.tools = [Manifest EXCEPT ![t] = Grown(t, Permitted)]
    BY <1>1, <1>2, ToolPageIs
  <1>4. Grown(t, Permitted) \in Nat
    BY <1>2 DEF Grown, TypeOK
  <1>5. /\ d.tools \in [Tool -> Nat]
        /\ \A u \in Tool : d.tools[u] = IF u = t THEN Grown(t, Permitted) ELSE Manifest[u]
    BY Zenon, <1>2, <1>3, <1>4, ManifestShape
  <1>6. \A u \in Tool, i \in Nat :
          /\ Lists(d, u, i) <=> Lists(c, u, i) \/ (u = t /\ i \in 1 .. d.tools[t])
          /\ Shows(d, u, i) <=>
               \/ Shows(c, u, i)
               \/ u = t /\ i \in 1 .. d.tools[t] /\ (i > Len(tools[t]) \/ tools[t][i] \subseteq Permitted)
    BY Zenon, <1>1, <1>2, ToolPageEntries
  <1>7. \A u \in Tool : Manifest[u] = Len(tools[u])
    BY DEF Manifest
  <1>8. d.tools[t] = Grown(t, Permitted)
    BY Zenon, <1>2, <1>5
  <1>9. /\ t \in Tool /\ t > c.cursor /\ tools[t] # <<>> /\ c.tools = Manifest
        /\ \A u \in Tool : u > c.cursor /\ u < t => tools[u] = <<>>
        /\ d.cursor = t /\ d.tools \in [Tool -> Nat]
        /\ \A u \in Tool : d.tools[u] = IF u = t THEN Grown(t, Permitted) ELSE Len(tools[u])
    BY Zenon, <1>1, <1>2, <1>3, <1>5, <1>7
  <1> QED
    BY Zenon, <1>6, <1>8, <1>9 DEF t

(* A scan that passes its last tool has covered every tool. *)
LEMMA PassedIs ==
    ASSUME TypeOK, NEW c \in Checkpoint, NEW d, PassedPage(c, d)
    PROVE  /\ c.tools = Manifest /\ d.tools = Manifest /\ d.verified = c.verified
           /\ \A t \in Tool : t <= d.cursor /\ (t <= c.cursor \/ tools[t] = <<>>)
  <1>1. c.tools = Manifest /\ d.tools = Manifest /\ d.verified = c.verified /\ ~OnTool(c)
    BY Zenon DEF PassedPage, Restarts, SnapshotChanged
  <1>2. c.cursor \in Nat
    BY Constants DEF Checkpoint
  <1>3. d.cursor \in {Skills, Complete}
    BY Zenon DEF PassedPage
  <1>4. ASSUME NEW t \in Tool PROVE t <= d.cursor /\ (t <= c.cursor \/ tools[t] = <<>>)
    <2>1. t \in Nat /\ t <= NTools /\ NTools \in Nat /\ t <= d.cursor
      BY <1>3, Constants
    <2>2. CASE c.cursor <= NTools
      BY <2>1, <2>2, <1>1, <1>2 DEF OnTool, NextTools
    <2>3. CASE c.cursor > NTools
      BY <2>1, <2>3, <1>2
    <2> QED
      BY <2>1, <2>2, <2>3, <1>2
  <1> QED
    BY Zenon, <1>1, <1>4

(* Every step keeps the checkpoints covering. *)
LEMMA CheckpointsStep == ASSUME IInv, [Next]_vars PROVE CheckpointsCover'
  <1>0. TypeOK /\ CheckpointsCover
    BY DEF IInv
  <1> SUFFICES ASSUME NEW e \in Epoch
               PROVE  LET d == jobs'[e].ckpt
                      IN  (d.cursor > 0 => d.tools \in [Tool -> Nat]) /\ Covers(d)
    BY Zenon DEF CheckpointsCover, Covers, Lists
  <1> DEFINE d == jobs'[e].ckpt
  <1>1. CASE d = jobs[e].ckpt
    BY Zenon, <1>0, <1>1 DEF CheckpointsCover
  <1>2. CASE d.cursor = 0 /\ d.verified = {}
    BY <1>2, EmptyCovers
  <1>3. ASSUME NEW w \in Worker, PageStep(w) PROVE (d.cursor > 0 => d.tools \in [Tool -> Nat]) /\ Covers(d)
    <2> DEFINE c == Ckpt(root.epoch)
    <2>1. CASE e # root.epoch
      <3>1. d = jobs[e].ckpt
        BY Zenon, <1>3, <2>1, PageKinds DEF Job
      <3> QED
        BY Zenon, <3>1, <1>1
    <2>2. CASE e = root.epoch
      <3>1. /\ root.state = "Reconciling"
            /\ PublishedPage(c, d) \/ RestartedPage(d) \/ TakenPage(c, d) \/ PassedPage(c, d)
        BY Zenon, <1>3, <2>2, PageKinds
      <3>2. c \in Checkpoint /\ Covers(c)
        BY Zenon, <2>2, <3>1, ScanFacts
      <3>3. \A u \in Tool : u \in Nat /\ Len(tools[u]) \in Nat /\ (tools[u] = <<>> => Len(tools[u]) = 0)
        BY <1>0, Constants DEF TypeOK
      <3>4. c.cursor \in Nat /\ Manifest \in [Tool -> Nat] /\ \A u \in Tool : Manifest[u] = Len(tools[u])
        BY <1>0, <3>2, Constants, ManifestShape DEF Checkpoint, Manifest
      <3> HIDE DEF c, d
      <3>5. CASE PublishedPage(c, d)
        BY Zenon, <3>2, <3>4, <3>5 DEF PublishedPage, Restarts, SnapshotChanged
      <3>6. CASE RestartedPage(d)
        BY <3>6, EmptyCovers DEF RestartedPage
      <3>7. CASE TakenPage(c, d)
        <4>1. PICK t \in Tool :
                 /\ t > c.cursor /\ c.tools = Manifest
                 /\ \A u \in Tool : u > c.cursor /\ u < t => tools[u] = <<>>
                 /\ d.cursor = t /\ d.tools \in [Tool -> Nat]
                 /\ \A u \in Tool : d.tools[u] = IF u = t THEN Grown(t, Permitted) ELSE Len(tools[u])
                 /\ \A u \in Tool, i \in Nat :
                      Lists(d, u, i) <=> Lists(c, u, i) \/ (u = t /\ i \in 1 .. Grown(t, Permitted))
          BY Zenon, <1>0, <3>2, <3>7, TakenIs
        <4>2. ASSUME NEW u \in Tool, NEW i \in Nat
              PROVE  Lists(d, u, i) <=> u <= d.cursor /\ i \in 1 .. d.tools[u]
          <5>1. Lists(c, u, i) <=> u <= c.cursor /\ i \in 1 .. Len(tools[u])
            BY Zenon, <3>2, <3>4, <4>1 DEF Covers
          <5>2. CASE u = t
            BY <5>1, <5>2, <4>1, <3>3, <3>4
          <5>3. CASE u # t
            <6>1. (Lists(d, u, i) <=> u <= c.cursor /\ i \in 1 .. Len(tools[u])) /\ d.tools[u] = Len(tools[u])
              BY Zenon, <5>1, <5>3, <4>1
            <6>2. u <= t /\ i \in 1 .. Len(tools[u]) => u <= c.cursor
              BY <5>3, <4>1, <3>3, <3>4
            <6>3. u <= c.cursor => u <= t
              BY <4>1, <3>3, <3>4
            <6> QED
              BY Zenon, <6>1, <6>2, <6>3, <4>1
          <5> QED
            BY Zenon, <5>2, <5>3
        <4> QED
          BY <4>1, <4>2 DEF Covers
      <3>8. CASE PassedPage(c, d)
        <4>1. /\ c.tools = Manifest /\ d.tools = Manifest /\ d.verified = c.verified
              /\ \A t \in Tool : t <= d.cursor /\ (t <= c.cursor \/ tools[t] = <<>>)
          BY Zenon, <1>0, <3>2, <3>8, PassedIs
        <4>2. ASSUME NEW u \in Tool, NEW i \in Nat
              PROVE  Lists(d, u, i) <=> u <= d.cursor /\ i \in 1 .. d.tools[u]
          <5>1. Lists(c, u, i) <=> u <= c.cursor /\ i \in 1 .. Len(tools[u])
            BY Zenon, <3>2, <3>4, <4>1 DEF Covers
          <5>2. Lists(d, u, i) <=> Lists(c, u, i)
            BY Zenon, <4>1 DEF Lists
          <5> QED
            BY <5>1, <5>2, <4>1, <3>3, <3>4
        <4> QED
          BY Zenon, <4>1, <4>2, <3>4 DEF Covers
      <3> QED
        BY Zenon, <3>1, <3>5, <3>6, <3>7, <3>8
    <2> QED
      BY Zenon, <2>1, <2>2
  <1> QED
    BY Zenon, <1>1, <1>2, <1>3, CheckpointMoves

(* The revision that a page may add to its tool. *)
LEMMA TakenTools ==
    ASSUME TypeOK, NEW c \in Checkpoint, NEW d, TakenPage(c, d)
    PROVE  LET t == NextTool(c.cursor)
           IN  /\ \A u \in Tool : u # t => tools'[u] = tools[u]
               /\ Len(tools[t]) \in Nat /\ Len(tools'[t]) = Grown(t, Permitted)
               /\ \A i \in 1 .. Len(tools[t]) : tools'[t][i] = tools[t][i]
               /\ ~Rewrites(t, Permitted) => tools' = tools
               /\ Rewrites(t, Permitted) => /\ Grown(t, Permitted) = Len(tools[t]) + 1
                                            /\ tools'[t][Len(tools[t]) + 1] = Evidence(t) \cap Permitted
  <1> DEFINE t == NextTool(c.cursor)
             x == Rebuilt(t, Permitted)
  <1>1. t \in Tool
    BY Zenon, TakenIs
  <1>2. tools' = IF Rewrites(t, Permitted) THEN [tools EXCEPT ![t] = Append(@, x)] ELSE tools
    BY Zenon DEF TakenPage
  <1>3. x \in SUBSET Source /\ x = Evidence(t) \cap Permitted
    BY Zenon, <1>1, BodyShapes DEF Rebuilt, Reduced
  <1> HIDE DEF t, x
  <1>4. tools[t] \in Seq(SUBSET Source) /\ Len(tools[t]) \in Nat
    BY <1>1 DEF TypeOK
  <1>5. CASE ~Rewrites(t, Permitted)
    BY Zenon, <1>2, <1>4, <1>5 DEF Grown, t
  <1>6. CASE Rewrites(t, Permitted)
    <2>1. tools'[t] = Append(tools[t], x) /\ \A u \in Tool : u # t => tools'[u] = tools[u]
      BY <1>1, <1>2, <1>6 DEF TypeOK
    <2>2. /\ Len(Append(tools[t], x)) = Len(tools[t]) + 1 /\ Append(tools[t], x)[Len(tools[t]) + 1] = x
          /\ \A i \in 1 .. Len(tools[t]) : Append(tools[t], x)[i] = tools[t][i]
      BY Zenon, <1>3, <1>4, AppendEvidence
    <2>3. Grown(t, Permitted) = Len(tools[t]) + 1
      BY Zenon, <1>6 DEF Grown
    <2> QED
      BY Zenon, <2>1, <2>2, <2>3, <1>3, <1>4, <1>6 DEF t
  <1> QED
    BY Zenon, <1>5, <1>6

(* Proofs that stay in the checkpoint stay true of the revisions they are about. *)
LEMMA ProofsKept ==
    ASSUME IInv, [Next]_vars, producer' = producer, NEW c \in Checkpoint, Covers(c),
           c.cursor > 0 => /\ c.tools \in [Tool -> Nat]
                           /\ \A t \in Tool : c.tools[t] <= Len(tools[t]),
           \A t \in Tool, i \in Nat : Shows(c, t, i) => tools[t][i] \subseteq Permitted
    PROVE  /\ c.cursor > 0 => \A t \in Tool : c.tools[t] <= Len(tools'[t])
           /\ \A t \in Tool, i \in Nat :
                 Shows(c, t, i) => i \in 1 .. Len(tools[t]) /\ tools'[t][i] \subseteq Permitted'
  <1>0. TypeOK /\ TypeOK' /\ Permitted' = Permitted
    BY Zenon, TypeStep, PermittedSame DEF IInv
  <1>1. \A t \in Tool : /\ Len(tools[t]) \in Nat /\ Len(tools'[t]) \in Nat /\ Len(tools'[t]) >= Len(tools[t])
                        /\ \A i \in 1 .. Len(tools[t]) : tools'[t][i] = tools[t][i]
    BY <1>0, ToolsStep DEF TypeOK
  <1>2. ASSUME NEW t \in Tool, c.cursor > 0 PROVE c.tools[t] <= Len(tools'[t])
    <2>1. c.tools[t] \in Nat /\ c.tools[t] <= Len(tools[t])
      BY Zenon, <1>2
    <2> QED
      BY <2>1, <1>1
  <1>3. ASSUME NEW t \in Tool, NEW i \in Nat, Shows(c, t, i)
        PROVE  i \in 1 .. Len(tools[t]) /\ tools'[t][i] \subseteq Permitted'
    <2>1. t <= c.cursor /\ i \in 1 .. c.tools[t]
      BY Zenon, <1>3, ShowsLists DEF Covers
    <2>2. c.cursor > 0
      BY <2>1, Constants DEF Checkpoint
    <2>3. c.tools[t] \in Nat /\ c.tools[t] <= Len(tools[t])
      BY Zenon, <2>2
    <2>4. i \in 1 .. Len(tools[t])
      BY <2>1, <2>3, <1>1
    <2> QED
      BY Zenon, <2>4, <1>0, <1>1, <1>3
  <1> QED
    BY Zenon, <1>2, <1>3

(* Every step keeps the proofs true. *)
LEMMA ProofsStep == ASSUME IInv, [Next]_vars PROVE ProofsAreTrue'
  <1>0. TypeOK /\ TypeOK' /\ CheckpointsCover /\ ProofsAreTrue
    BY Zenon, TypeStep DEF IInv
  <1> DEFINE d == jobs'[root'.epoch].ckpt
             G == /\ d.cursor > 0 => \A t \in Tool : d.tools[t] <= Len(tools'[t])
                  /\ \A t \in Tool, i \in Nat : Shows(d, t, i) => tools'[t][i] \subseteq Permitted'
  <1> SUFFICES ASSUME root'.epoch > 1 PROVE G
    BY Zenon DEF ProofsAreTrue, Current, Shows
  <1>1. root'.epoch \in Epoch
    BY <1>0, Constants DEF TypeOK, Root, Epoch
  <1>2. ASSUME producer' = producer, root'.epoch = root.epoch, \A e \in Epoch : jobs'[e].ckpt = jobs[e].ckpt
        PROVE  G
    <2>1. d = Current
      BY Zenon, <1>1, <1>2 DEF Current
    <2>2. Current \in Checkpoint
      BY Zenon, <1>0, <1>1, <1>2, JobIs DEF Current, Job
    <2>3. Covers(Current) /\ (Current.cursor > 0 => Current.tools \in [Tool -> Nat])
      BY Zenon, <1>0, <1>1, <1>2 DEF CheckpointsCover, Current
    <2>4. /\ Current.cursor > 0 => \A t \in Tool : Current.tools[t] <= Len(tools[t])
          /\ \A t \in Tool, i \in Nat : Shows(Current, t, i) => tools[t][i] \subseteq Permitted
      BY Zenon, <1>0, <1>2 DEF ProofsAreTrue
    <2> DEFINE c == Current
    <2> HIDE DEF c, d
    <2>5. /\ c.cursor > 0 => \A t \in Tool : c.tools[t] <= Len(tools'[t])
          /\ \A t \in Tool, i \in Nat : Shows(c, t, i) => tools'[t][i] \subseteq Permitted'
      BY Zenon, <1>2, <2>2, <2>3, <2>4, ProofsKept DEF c
    <2> QED
      BY Zenon, <2>1, <2>5 DEF c
  <1>3. ASSUME d.cursor = 0, d.verified = {} PROVE G
    BY <1>3, EmptyCovers
  <1>4. CASE Quiet
    BY Zenon, <1>2, <1>4 DEF Quiet
  <1>5. ASSUME NEW w \in Worker, FeedbackStep(w) PROVE G
    <2>1. producer' = producer /\ root' = root /\ worker[w].job \in Source
          /\ \A k \in Job \ {worker[w].job} : jobs'[k] = jobs[k]
      BY Zenon, <1>5, FeedbackIs
    <2>2. \A e \in Epoch : e \in Job /\ e # worker[w].job
      BY Zenon, <2>1, Constants DEF Job
    <2> QED
      BY Zenon, <1>2, <2>1, <2>2
  <1>6. CASE Resume
    <2>1. d.cursor = 0 /\ d.verified = {}
      BY Zenon, <1>0, <1>6, ResumeIs DEF RootSet, JobSet, IsJob
    <2> QED
      BY Zenon, <2>1, <1>3
  <1>7. CASE ControlStep
    <2>1. BeginEpoch
      BY Zenon, <1>7 DEF ControlStep, Control
    <2>2. d = NoCkpt
      BY Zenon, <2>1, <1>0, BeginEpochIs DEF IsJob
    <2> QED
      BY <2>2, <1>3 DEF NoCkpt
  <1>8. ASSUME NEW w \in Worker, PageStep(w) PROVE G
    <2> DEFINE c == Ckpt(root.epoch)
    <2>1. /\ root.epoch \in Epoch /\ root.state = "Reconciling" /\ root'.epoch = root.epoch /\ producer' = producer
          /\ PublishedPage(c, d) \/ RestartedPage(d) \/ TakenPage(c, d) \/ PassedPage(c, d)
      BY Zenon, <1>8, PageKinds
    <2>2. /\ c \in Checkpoint /\ Covers(c)
          /\ c.cursor > 0 => \A t \in Tool : c.tools[t] <= Len(tools[t])
          /\ \A t \in Tool, i \in Nat : Shows(c, t, i) => tools[t][i] \subseteq Permitted
      BY Zenon, <2>1, ScanFacts
    <2>3. c.cursor > 0 => c.tools \in [Tool -> Nat]
      BY <1>0, <2>1, CkptShapes DEF CheckpointsCover, Ckpt
    <2> HIDE DEF c, d
    <2>4. /\ c.cursor > 0 => \A t \in Tool : c.tools[t] <= Len(tools'[t])
          /\ \A t \in Tool, i \in Nat :
                Shows(c, t, i) => i \in 1 .. Len(tools[t]) /\ tools'[t][i] \subseteq Permitted'
      BY Zenon, <2>1, <2>2, <2>3, ProofsKept
    <2>5. CASE PublishedPage(c, d)
      BY Zenon, <2>4, <2>5 DEF PublishedPage
    <2>6. CASE RestartedPage(d)
      BY <2>6, EmptyCovers DEF RestartedPage
    <2>7. CASE PassedPage(c, d)
      <3>1. d.tools = Manifest /\ d.verified = c.verified /\ tools' = tools
        BY Zenon, <1>0, <2>2, <2>7, PassedIs DEF PassedPage
      <3>2. \A t \in Tool : Manifest[t] <= Len(tools[t])
        BY <1>0 DEF Manifest, TypeOK
      <3>3. \A t \in Tool, i \in Nat : Shows(d, t, i) <=> Shows(c, t, i)
        BY Zenon, <3>1 DEF Shows
      <3> QED
        BY Zenon, <3>1, <3>2, <3>3, <2>4
    <2>8. CASE TakenPage(c, d)
      <3> DEFINE t == NextTool(c.cursor)
      <3>1. /\ t \in Tool
            /\ \A u \in Tool : d.tools[u] = IF u = t THEN Grown(t, Permitted) ELSE Len(tools[u])
            /\ \A u \in Tool, i \in Nat :
                  Shows(d, u, i) <=>
                         \/ Shows(c, u, i)
                         \/ /\ u = t /\ i \in 1 .. Grown(t, Permitted)
                            /\ i > Len(tools[t]) \/ tools[t][i] \subseteq Permitted
        BY Zenon, <1>0, <2>2, <2>8, TakenIs
      <3>2. /\ \A u \in Tool : u # t => tools'[u] = tools[u]
            /\ Len(tools[t]) \in Nat /\ Len(tools'[t]) = Grown(t, Permitted)
            /\ \A i \in 1 .. Len(tools[t]) : tools'[t][i] = tools[t][i]
            /\ ~Rewrites(t, Permitted) => tools' = tools
            /\ Rewrites(t, Permitted) => /\ Grown(t, Permitted) = Len(tools[t]) + 1
                                         /\ tools'[t][Len(tools[t]) + 1] = Evidence(t) \cap Permitted
        BY Zenon, <1>0, <2>2, <2>8, TakenTools
      <3> HIDE DEF t
      <3>3. \A u \in Tool : Len(tools'[u]) \in Nat /\ d.tools[u] = Len(tools'[u])
        BY <1>0, <3>1, <3>2 DEF TypeOK
      <3>4. Permitted' = Permitted
        BY Zenon, <2>1, PermittedSame
      <3>5. ASSUME NEW u \in Tool, NEW i \in Nat, Shows(d, u, i) PROVE tools'[u][i] \subseteq Permitted'
        <4>1. CASE Shows(c, u, i)
          BY Zenon, <4>1, <2>4
        <4>2. CASE u = t /\ i \in 1 .. Len(tools[t]) /\ tools[t][i] \subseteq Permitted
          BY Zenon, <4>2, <3>2, <3>4
        <4>3. CASE u = t /\ i \in 1 .. Grown(t, Permitted) /\ i > Len(tools[t])
          <5>1. Rewrites(t, Permitted)
            BY <4>3, <3>2 DEF Grown
          <5>2. i = Len(tools[t]) + 1
            BY <5>1, <4>3, <3>2
          <5> QED
            BY Zenon, <5>1, <5>2, <4>3, <3>2, <3>4
        <4>4. i \in 1 .. Grown(t, Permitted) => i > Len(tools[t]) \/ i \in 1 .. Len(tools[t])
          BY <3>2
        <4> QED
          BY Zenon, <4>1, <4>2, <4>3, <4>4, <3>1, <3>5
      <3>6. \A u \in Tool : d.tools[u] <= Len(tools'[u])
        BY <3>3
      <3> QED
        BY Zenon, <3>5, <3>6
    <2> QED
      BY Zenon, <2>1, <2>5, <2>6, <2>7, <2>8
  <1> QED
    BY Zenon, <1>4, <1>5, <1>6, <1>7, <1>8, StepKinds

(* Every step keeps what was scanned complete. *)
LEMMA ScannedStep == ASSUME IInv, [Next]_vars PROVE ScannedIsComplete'
  <1>0. TypeOK /\ TypeOK' /\ ScannedIsComplete
    BY Zenon, TypeStep DEF IInv
  <1> DEFINE d == jobs'[root'.epoch].ckpt
             G == \A t \in Tool : tools'[t] # <<>> /\ t <= d.cursor /\ d.tools[t] = Len(tools'[t])
                     => Shows(d, t, Len(tools'[t])) /\ Last(tools'[t]) = Evidence(t)' \cap Permitted'
  <1> SUFFICES ASSUME root'.epoch > 1, root'.state = "Reconciling" PROVE G
    BY Zenon DEF ScannedIsComplete, Current, Shows
  <1>1. root'.epoch \in Epoch
    BY <1>0, Constants DEF TypeOK, Root, Epoch
  <1>2. ASSUME d.cursor = 0, d.verified = {} PROVE G
    BY Zenon, <1>2, EmptyCovers
  <1>3. CASE Quiet
    <2>1. /\ producer' = producer /\ tools' = tools /\ root'.epoch = root.epoch /\ root.state = "Reconciling"
          /\ d = Current
      BY Zenon, <1>1, <1>3 DEF Quiet, Current
    <2>2. Permitted' = Permitted /\ \A t \in Tool : Evidence(t)' = Evidence(t)
      BY Zenon, <2>1, PermittedSame, EvidenceSame
    <2>3. \A t \in Tool : tools[t] # <<>> /\ t <= Current.cursor /\ Current.tools[t] = Len(tools[t])
             => /\ Shows(Current, t, Len(tools[t])) /\ Last(tools[t]) = Evidence(t) \cap Permitted
      BY Zenon, <1>0, <2>1 DEF ScannedIsComplete
    <2> HIDE DEF d
    <2> QED
      BY Zenon, <2>1, <2>2, <2>3
  <1>4. ASSUME NEW w \in Worker, FeedbackStep(w) PROVE G
    BY Zenon, <1>4, FeedbackIs
  <1>5. CASE Resume
    <2>1. d.cursor = 0 /\ d.verified = {}
      BY Zenon, <1>0, <1>5, ResumeIs DEF RootSet, JobSet, IsJob
    <2> QED
      BY Zenon, <2>1, <1>2
  <1>6. CASE ControlStep
    <2>1. BeginEpoch
      BY Zenon, <1>6 DEF ControlStep, Control
    <2>2. d = NoCkpt
      BY Zenon, <2>1, <1>0, BeginEpochIs DEF IsJob
    <2> QED
      BY <2>2, <1>2 DEF NoCkpt
  <1>7. ASSUME NEW w \in Worker, PageStep(w) PROVE G
    <2> DEFINE c == Ckpt(root.epoch)
    <2>1. /\ root.epoch \in Epoch /\ root.state = "Reconciling" /\ root'.epoch = root.epoch /\ producer' = producer
          /\ PublishedPage(c, d) \/ RestartedPage(d) \/ TakenPage(c, d) \/ PassedPage(c, d)
      BY Zenon, <1>7, PageKinds
    <2>2. /\ c \in Checkpoint
          /\ \A t \in Tool : tools[t] # <<>> /\ t <= c.cursor /\ c.tools[t] = Len(tools[t])
                => /\ Shows(c, t, Len(tools[t])) /\ Last(tools[t]) = Evidence(t) \cap Permitted
      BY Zenon, <2>1, ScanFacts
    <2>3. Permitted' = Permitted /\ \A t \in Tool : Evidence(t)' = Evidence(t)
      BY Zenon, <1>7, <2>1, PageTools, PermittedSame
    <2>4. \A t \in Tool : Manifest[t] = Len(tools[t])
      BY Zenon DEF Manifest
    <2> HIDE DEF c, d
    <2>5. CASE PublishedPage(c, d)
      BY Zenon, <2>5 DEF PublishedPage
    <2>6. CASE RestartedPage(d)
      BY Zenon, <2>6, EmptyCovers DEF RestartedPage
    <2>7. CASE PassedPage(c, d)
      <3>1. /\ c.tools = Manifest /\ d.verified = c.verified /\ tools' = tools
            /\ \A t \in Tool : t <= c.cursor \/ tools[t] = <<>>
        BY Zenon, <1>0, <2>2, <2>7, PassedIs DEF PassedPage
      <3>2. \A t \in Tool : \A i : Shows(d, t, i) <=> Shows(c, t, i)
        BY Zenon, <3>1 DEF Shows
      <3> QED
        BY Zenon, <3>1, <3>2, <2>2, <2>3, <2>4
    <2>8. CASE TakenPage(c, d)
      <3> DEFINE t == NextTool(c.cursor)
      <3>1. /\ t \in Tool /\ tools[t] # <<>> /\ c.tools = Manifest /\ d.cursor = t /\ t > c.cursor
            /\ \A u \in Tool : u > c.cursor /\ u < t => tools[u] = <<>>
            /\ \A u \in Tool, i \in Nat :
                  Shows(d, u, i) <=>
                         \/ Shows(c, u, i)
                         \/ /\ u = t /\ i \in 1 .. Grown(t, Permitted)
                            /\ i > Len(tools[t]) \/ tools[t][i] \subseteq Permitted
        BY Zenon, <1>0, <2>2, <2>8, TakenIs
      <3>2. /\ \A u \in Tool : u # t => tools'[u] = tools[u]
            /\ Len(tools[t]) \in Nat /\ Len(tools'[t]) = Grown(t, Permitted)
            /\ ~Rewrites(t, Permitted) => tools' = tools
            /\ Rewrites(t, Permitted) => /\ Grown(t, Permitted) = Len(tools[t]) + 1
                                         /\ tools'[t][Len(tools[t]) + 1] = Evidence(t) \cap Permitted
        BY Zenon, <1>0, <2>2, <2>8, TakenTools
      <3> HIDE DEF t
      <3>3. \A u \in Tool : u \in Nat /\ Len(tools[u]) \in Nat
        BY <1>0, Constants DEF TypeOK
      <3>4. c.cursor \in Nat
        BY <2>2, Constants DEF Checkpoint
      <3>5. ASSUME NEW u \in Tool, u # t, tools'[u] # <<>>, u <= d.cursor
            PROVE  Shows(d, u, Len(tools'[u])) /\ Last(tools'[u]) = Evidence(u)' \cap Permitted'
        <4>1. tools'[u] = tools[u] /\ u <= c.cursor
          BY <3>1, <3>2, <3>3, <3>4, <3>5
        <4>2. Shows(c, u, Len(tools[u])) /\ Last(tools[u]) = Evidence(u) \cap Permitted
          BY Zenon, <4>1, <2>2, <2>4, <3>1, <3>5
        <4> QED
          BY Zenon, <4>1, <4>2, <2>3, <3>1, <3>3
      <3>6. Shows(d, t, Len(tools'[t])) /\ Last(tools'[t]) = Evidence(t) \cap Permitted
        <4>1. CASE Rewrites(t, Permitted)
          <5>1. Len(tools'[t]) = Len(tools[t]) + 1 /\ Last(tools'[t]) = Evidence(t) \cap Permitted
            BY Zenon, <4>1, <3>2 DEF Last
          <5>2. Len(tools[t]) + 1 \in Nat /\ Len(tools[t]) + 1 \in 1 .. Grown(t, Permitted)
                /\ Len(tools[t]) + 1 > Len(tools[t])
            BY <4>1, <3>2
          <5> QED
            BY Zenon, <5>1, <5>2, <3>1
        <4>2. CASE ~Rewrites(t, Permitted)
          <5>1. tools' = tools /\ Last(tools[t]) = Evidence(t) \cap Permitted /\ Grown(t, Permitted) = Len(tools[t])
            BY Zenon, <4>2, <3>2 DEF Rewrites, Rebuilt, Reduced, Grown
          <5>2. Len(tools[t]) \in 1 .. Len(tools[t])
            <6>1. tools[t] \in Seq(SUBSET Source)
              BY Zenon, <1>0, <3>1 DEF TypeOK
            <6> QED
              BY <6>1, <3>1
          <5>3. tools[t][Len(tools[t])] \subseteq Permitted
            BY Zenon, <5>1 DEF Last
          <5> QED
            BY Zenon, <5>1, <5>2, <5>3, <3>1, <3>2
        <4> QED
          BY Zenon, <4>1, <4>2
      <3>7. \A u \in Tool : u = t => Evidence(u)' = Evidence(t)
        BY Zenon, <2>3
      <3>8. ASSUME NEW u \in Tool, u = t
            PROVE  Shows(d, u, Len(tools'[u])) /\ Last(tools'[u]) = Evidence(u)' \cap Permitted'
        BY Zenon, <3>6, <3>7, <3>8, <2>3
      <3> QED
        BY Zenon, <3>5, <3>8
    <2> QED
      BY Zenon, <2>1, <2>5, <2>6, <2>7, <2>8
  <1> QED
    BY Zenon, <1>3, <1>4, <1>5, <1>6, <1>7, StepKinds

(* Every step keeps a ready root complete. *)
LEMMA ReadyStep == ASSUME IInv, [Next]_vars PROVE ReadyIsComplete'
  <1>0. /\ TypeOK /\ TypeOK' /\ EpochsClose /\ LedgerIsExact /\ CheckpointsCover /\ ProofsAreTrue
        /\ ReadyIsComplete
    BY Zenon, TypeStep DEF IInv
  <1> DEFINE whole(t) == {s \in Permitted : ledger[s].epoch > 0 /\ t \in Feeds[s]}
             G(t) == /\ PermitsExact(<<t, Len(tools[t])>>)'
                     /\ Last(tools'[t]) = {s \in Permitted' : ledger'[s].epoch > 0 /\ t \in Feeds[s]}
  <1> SUFFICES ASSUME root'.state = "Ready", NEW t \in Tool, tools'[t] # <<>> PROVE G(t)
    BY Zenon DEF ReadyIsComplete
  <1>1. root.epoch \in Nat /\ root.epoch >= 1 /\ (root.epoch > 1 => root.epoch \in Epoch)
    BY <1>0, Constants DEF TypeOK, Root, Epoch
  <1>2. root.state = "Ready" /\ tools[t] # <<>> =>
           PermitsExact(<<t, Len(tools[t])>>) /\ Last(tools[t]) = whole(t)
    BY Zenon, <1>0 DEF ReadyIsComplete
  <1>3. \A s \in Source : s \in Evidence(t) <=> ledger[s].epoch > 0 /\ t \in Feeds[s]
    BY Zenon, <1>0 DEF LedgerIsExact
  <1>4. whole(t) = Evidence(t) \cap Permitted
    BY Zenon, <1>3 DEF Permitted
  <1>5. CASE Quiet
    <2>1. /\ producer' = producer /\ tools' = tools /\ ledger' = ledger /\ root'.epoch = root.epoch
          /\ root.state = "Ready" /\ \A e \in Epoch : jobs'[e].ckpt = jobs[e].ckpt
      BY Zenon, <1>5 DEF Quiet
    <2>2. Proofs' = Proofs /\ Permitted' = Permitted
      BY <2>1, <1>1, PermittedSame DEF Proofs
    <2>3. \A b : AppliedNow(b)' <=> AppliedNow(b)
      BY Zenon, <2>1 DEF AppliedNow
    <2>4. PermitsExact(<<t, Len(tools[t])>>)
      BY Zenon, <1>2, <2>1
    <2>5. PermitsExact(<<t, Len(tools[t])>>)'
      BY Zenon, <2>1, <2>2, <2>3, <2>4 DEF PermitsExact
    <2> QED
      BY Zenon, <1>2, <2>1, <2>2, <2>5
  <1>6. CASE Resume
    BY Zenon, <1>0, <1>6, ResumeIs DEF RootSet
  <1>7. CASE ControlStep
    <2>1. BeginEpoch
      BY Zenon, <1>7 DEF ControlStep, Control
    <2> QED
      BY Zenon, <2>1, <1>0, BeginEpochIs
  <1>8. ASSUME NEW w \in Worker, PageStep(w) PROVE G(t)
    <2> DEFINE c == Ckpt(root.epoch)
               d == jobs'[root.epoch].ckpt
               n == Len(tools[t])
    <2>1. /\ root.epoch \in Epoch /\ root.state = "Reconciling" /\ root'.epoch = root.epoch
          /\ producer' = producer /\ ledger' = ledger /\ PublishedPage(c, d)
      BY Zenon, <1>8, PageKinds DEF RestartedPage, TakenPage, PassedPage
    <2>2. \A u \in Tool : tools[u] # <<>> /\ u <= c.cursor /\ c.tools[u] = Len(tools[u])
                => /\ Shows(c, u, Len(tools[u])) /\ Last(tools[u]) = Evidence(u) \cap Permitted
      BY Zenon, <2>1, ScanFacts
    <2>3. c.tools = Manifest /\ c.cursor = Complete /\ d = c /\ tools' = tools
      BY Zenon, <2>1 DEF PublishedPage, Restarts, SnapshotChanged
    <2>4. t <= c.cursor /\ c.tools[t] = Len(tools[t])
      BY <2>3, Constants DEF Manifest
    <2>5. Shows(d, t, n) /\ Last(tools[t]) = Evidence(t) \cap Permitted
      BY Zenon, <2>2, <2>3, <2>4
    <2>6. Proofs' = d.verified
      BY <2>1, Constants DEF Proofs
    <2>7. Permitted' = Permitted
      BY Zenon, <2>1, PermittedSame
    <2>8. PermitsExact(<<t, Len(tools[t])>>)'
      <3>1. [at |-> <<t, n>>, visible |-> TRUE] \in Proofs' /\ Len(tools'[t]) = n
        BY Zenon, <2>3, <2>5, <2>6 DEF Shows
      <3>2. \E p \in Proofs' : p.at = <<t, n>>
        BY Zenon, <3>1
      <3> HIDE DEF n
      <3> QED
        BY Zenon, <3>1, <3>2 DEF PermitsExact
    <2> QED
      BY Zenon, <1>4, <2>1, <2>3, <2>5, <2>7, <2>8
  <1>9. ASSUME NEW w \in Worker, FeedbackStep(w) PROVE G(t)
    <2>1. PICK j \in Source :
               /\ j = worker[w].job /\ j \in Permitted /\ root.state = "Ready" /\ root' = root
               /\ producer' = producer /\ \A k \in Job \ {j} : jobs'[k] = jobs[k]
               /\ ledger[j].epoch = 0 /\ ledger'[j].epoch = root.epoch
               /\ ledger'[j].at = [u \in Feeds[j] |-> Len(tools[u]) + 1]
               /\ \A u \in Source \ {j} : ledger'[u] = ledger[u]
      BY Zenon, <1>9, FeedbackIs
    <2>2. Permitted' = Permitted /\ Permitted \subseteq Source
      BY Zenon, <2>1, PermittedSame DEF Permitted
    <2>3. Proofs' = Proofs
      <3>1. \A e \in Epoch : e \in Job \ {j}
        BY Zenon, Constants DEF Job
      <3> QED
        BY <3>1, <2>1, <1>1 DEF Proofs
    <2>4. CASE t \notin Feeds[j]
      <3>1. tools'[t] = tools[t]
        BY Zenon, <1>9, <2>1, <2>4, FeedbackTools
      <3>2. PermitsExact(<<t, Len(tools[t])>>) /\ Last(tools[t]) = whole(t)
        BY Zenon, <3>1, <1>2, <2>1
      <3>3. AppliedNow(<<t, Len(tools[t])>>) => AppliedNow(<<t, Len(tools[t])>>)'
        <4> SUFFICES ASSUME NEW s \in Source, ledger[s].epoch = root.epoch, t \in DOMAIN ledger[s].at,
                            ledger[s].at[t] = Len(tools[t])
                     PROVE  AppliedNow(<<t, Len(tools[t])>>)'
          BY Zenon DEF AppliedNow
        <4>1. ledger'[s] = ledger[s] /\ root' = root
          BY <2>1, <1>1
        <4> QED
          BY Zenon, <4>1, <3>1 DEF AppliedNow
      <3>4. PermitsExact(<<t, Len(tools[t])>>)'
        BY Zenon, <3>1, <3>2, <3>3, <2>1, <2>3 DEF PermitsExact
      <3>5. {s \in Permitted' : ledger'[s].epoch > 0 /\ t \in Feeds[s]} = whole(t)
        BY Zenon, <2>1, <2>2, <2>4
      <3> QED
        BY <3>1, <3>2, <3>4, <3>5
    <2>5. CASE t \in Feeds[j]
      <3> DEFINE n == Len(tools[t])
      <3>1. /\ n \in Nat /\ Len(tools'[t]) = n + 1
            /\ tools'[t][n + 1] = {j} \cup (Evidence(t) \cap Permitted)
        BY Zenon, <1>9, <2>1, <2>5, FeedbackTools
      <3>2. ~\E p \in Proofs : p.at = <<t, n + 1>>
        <4> SUFFICES ASSUME NEW p \in Proofs, p.at = <<t, n + 1>> PROVE FALSE
          BY Zenon
        <4>1. root.epoch \in Epoch /\ root.epoch > 1 /\ Proofs = Current.verified
          BY <1>1 DEF Proofs, Current
        <4>2. Current \in Checkpoint /\ Covers(Current) /\ (Current.cursor > 0 => Current.tools \in [Tool -> Nat])
          BY Zenon, <4>1, <1>0, JobIs DEF CheckpointsCover, Current, Job
        <4>3. Lists(Current, t, n + 1)
          BY <4>1, <4>2, ListsElement
        <4>4. t <= Current.cursor /\ n + 1 \in 1 .. Current.tools[t]
          BY <4>2, <4>3, <3>1 DEF Covers
        <4>5. Current.cursor > 0
          BY <4>2, <4>4, Constants DEF Checkpoint
        <4>6. Current.tools[t] \in Nat /\ Current.tools[t] <= n
          BY Zenon, <4>1, <4>2, <4>5, <1>0 DEF ProofsAreTrue
        <4> QED
          BY <4>4, <4>6, <3>1
      <3>3. AppliedNow(<<t, Len(tools[t])>>)'
        <4>1. ledger'[j].at[t] = n + 1 /\ t \in DOMAIN ledger'[j].at
          BY Zenon, <2>1, <2>5
        <4> HIDE DEF n
        <4> QED
          BY Zenon, <4>1, <3>1, <2>1 DEF AppliedNow
      <3>4. PermitsExact(<<t, Len(tools[t])>>)'
        <4> HIDE DEF n
        <4> QED
          BY Zenon, <3>1, <3>2, <3>3, <2>1, <2>3 DEF PermitsExact
      <3>5. Last(tools'[t]) = {j} \cup whole(t)
        BY Zenon, <3>1, <1>4 DEF Last
      <3>6. {s \in Permitted' : ledger'[s].epoch > 0 /\ t \in Feeds[s]} = {j} \cup whole(t)
        BY <2>1, <2>2, <2>5, <1>1
      <3> QED
        BY Zenon, <3>4, <3>5, <3>6
    <2> QED
      BY Zenon, <2>4, <2>5
  <1> QED
    BY Zenon, <1>5, <1>6, <1>7, <1>8, <1>9, StepKinds

---------------------------------------------------------------------------
(* The invariant holds initially. *)
LEMMA InitInv == Init => IInv
  <1> SUFFICES ASSUME Init PROVE IInv
    BY Zenon
  <1>1. TypeOK
    BY Zenon, InitType
  <1>2. /\ root.epoch = 1 /\ root.state = "Ready" /\ \A j \in Job : jobs[j] = Absent
        /\ \A t \in Tool : tools[t] = <<>>
        /\ \A s \in Source : ledger[s] = [epoch |-> 0, at |-> <<>>]
        /\ \A w \in Worker : worker[w].pc \in {"idle", "absent"}
    BY DEF Init, Idle
  <1>3. \A e \in Epoch : e \in Job /\ e > 1
    BY Constants DEF Job
  <1>4. EpochsClose
    <2>1. \A e \in Epoch : jobs[e].status = "Absent" /\ ~(e < 1)
      BY <1>2, <1>3, Constants DEF Absent
    <2> QED
      BY <1>2, <2>1 DEF EpochsClose, RootClosesJob
  <1>5. ClaimsAreExact /\ PlansAreFenced
    BY Zenon, <1>2 DEF ClaimsAreExact, ClaimOK, Busy, Working, PlansAreFenced
  <1>6. LedgerIsExact
    <2>1. \A t \in Tool : Evidence(t) = {}
      <3> SUFFICES ASSUME NEW t \in Tool PROVE Evidence(t) = {}
        BY Zenon
      <3>1. \A s : s \in Evidence(t) <=> \E i \in 1 .. Len(tools[t]) : s \in tools[t][i]
        BY Zenon, <1>1, EvidenceElements
      <3>2. 1 .. Len(tools[t]) = {}
        BY <1>2
      <3> QED
        BY Zenon, <3>1, <3>2
    <2>2. \A s \in Source : ledger[s].epoch = 0 /\ jobs[s].status = "Absent"
      BY <1>2 DEF Job, Absent
    <2> QED
      BY <1>2, <2>1, <2>2 DEF LedgerIsExact
  <1>7. CheckpointsCover
    <2>1. \A e \in Epoch : jobs[e].ckpt.cursor = 0 /\ jobs[e].ckpt.verified = {}
      BY <1>2, <1>3 DEF Absent, NoCkpt
    <2> QED
      BY <2>1, EmptyCovers DEF CheckpointsCover
  <1>8. ProofsAreTrue /\ ScannedIsComplete
    BY <1>2 DEF ProofsAreTrue, ScannedIsComplete
  <1>9. ReadyIsComplete
    BY <1>2 DEF ReadyIsComplete
  <1> QED
    BY Zenon, <1>1, <1>4, <1>5, <1>6, <1>7, <1>8, <1>9 DEF IInv

(* The strengthened invariant of procedural learning: it holds at the start  *)
(* and every action of workers, producers, governor and time preserves it.   *)
THEOREM Inductive == Spec => []IInv
  <1>1. IInv /\ [Next]_vars => IInv'
    BY TypeStep, EpochsStep, ClaimsStep, PlansStep, LedgerStep, CheckpointsStep, ProofsStep, ScannedStep,
       ReadyStep DEF IInv
  <1> QED
    BY <1>1, InitInv, PTL DEF Spec

(* Every reachable state of the jobs, the root, the tools and the workers has *)
(* the shapes of the records the code stores.                                *)
THEOREM TypeCorrect == Spec => []TypeOK
  <1>1. IInv => TypeOK
    BY Zenon DEF IInv
  <1> QED
    BY <1>1, Inductive, PTL

(* Reads are fenced, by the invariant. *)
LEMMA FencedByInv == IInv => ReadsAreFenced
  <1> SUFFICES ASSUME IInv, NEW b \in Bindings, PermitsExact(b) PROVE tools[b[1]][b[2]] \subseteq Permitted
    BY Zenon DEF ReadsAreFenced
  <1>0. TypeOK /\ LedgerIsExact /\ ProofsAreTrue
    BY Zenon DEF IInv
  <1>1. PICK t \in Tool, i \in Nat : b = <<t, i>>
    BY DEF Bindings
  <1>2. i \in Nat /\ b[1] = t /\ b[2] = i
    BY Zenon, <1>1
  <1>3. CASE \E p \in Proofs : p.at = b
    <2>1. [at |-> <<t, i>>, visible |-> TRUE] \in Proofs
      BY Zenon, <1>1, <1>3 DEF PermitsExact
    <2>2. root.epoch # 1 /\ Proofs = Current.verified
      BY Zenon, <2>1 DEF Proofs, Current
    <2>3. root.epoch > 1
      BY <2>2, <1>0, Constants DEF TypeOK, Root
    <2> QED
      BY Zenon, <2>1, <2>2, <2>3, <1>0, <1>2 DEF ProofsAreTrue, Shows
  <1>4. CASE ~\E p \in Proofs : p.at = b
    <2>1. AppliedNow(b)
      BY Zenon, <1>4 DEF PermitsExact
    <2>2. PICK s \in Source : ledger[s].epoch = root.epoch /\ t \in DOMAIN ledger[s].at /\ ledger[s].at[t] = i
      BY Zenon, <2>1, <1>2 DEF AppliedNow
    <2> QED
      BY Zenon, <2>2, <1>0, <1>2 DEF LedgerIsExact
  <1> QED
    BY Zenon, <1>3, <1>4

(* Withdrawn evidence is never read: whatever permits_exact lets through in   *)
(* a reachable state holds only sources that are permitted in that state.     *)
THEOREM Fenced == Spec => []ReadsAreFenced
  BY Inductive, FencedByInv, PTL

(* Open reads are complete: each tool's current revision is readable and      *)
(* holds exactly the permitted feedback that was applied.                     *)
THEOREM ReadyComplete == Spec => []ReadyIsComplete
  <1>1. IInv => ReadyIsComplete
    BY DEF IInv
  <1> QED
    BY <1>1, Inductive, PTL

(* validate_subject_reconciliation_job accepts every reachable root and job. *)
THEOREM RootCloses == Spec => []RootClosesJob
  <1>1. IInv => RootClosesJob
    BY Zenon DEF IInv, EpochsClose
  <1> QED
    BY <1>1, Inductive, PTL

(* The scan covers the inventory, by the invariant. *)
LEMMA CoverByInv == IInv => ScanCoversInventory
  <1> DEFINE c == jobs[root.epoch].ckpt
  <1> SUFFICES ASSUME IInv, root.state = "Reconciling", c.cursor = Complete, ~SnapshotChanged(c)
               PROVE  {p.at : p \in c.verified} = Bindings
    BY Zenon DEF ScanCoversInventory
  <1>0. TypeOK /\ EpochsClose /\ CheckpointsCover
    BY Zenon DEF IInv
  <1>1. root.epoch \in Epoch
    <2>1. root.epoch \in 1 .. MaxEpoch /\ root.epoch # 1
      BY <1>0 DEF TypeOK, Root, EpochsClose
    <2> QED
      BY <2>1, Constants DEF Epoch
  <1>2. c \in Checkpoint /\ Covers(c) /\ c.tools = Manifest
    BY Zenon, <1>0, <1>1, JobIs DEF CheckpointsCover, SnapshotChanged, Job
  <1> HIDE DEF c
  <1>3. \A t \in Tool, i \in Nat : Lists(c, t, i) <=> i \in 1 .. Len(tools[t])
    <2>1. \A t \in Tool : t <= c.cursor /\ c.tools[t] = Len(tools[t])
      BY <1>2, Constants DEF Manifest
    <2> QED
      BY Zenon, <1>2, <2>1 DEF Covers
  <1>4. ASSUME NEW p \in c.verified PROVE p.at \in Bindings
    <2>1. p.at \in Tool \X Nat
      BY Zenon, <1>2 DEF Checkpoint
    <2>2. PICK t \in Tool, i \in Nat : p.at = <<t, i>>
      BY <2>1
    <2>3. Lists(c, t, i)
      BY <1>2, <2>2, ListsElement
    <2> QED
      BY <2>2, <2>3, <1>3 DEF Bindings
  <1>5. ASSUME NEW b \in Bindings PROVE \E p \in c.verified : p.at = b
    <2>1. PICK t \in Tool, i \in Nat : b = <<t, i>> /\ i \in 1 .. Len(tools[t])
      BY DEF Bindings
    <2>3. Lists(c, t, i)
      BY Zenon, <2>1, <1>3
    <2> QED
      BY Zenon, <2>1, <2>3 DEF Lists
  <1> QED
    BY Zenon, <1>4, <1>5

(* A complete scan over the current manifests has proved the exact retained   *)
(* inventory: validate_output_inventory never refuses to publish.             *)
THEOREM ScanCovers == Spec => []ScanCoversInventory
  BY Inductive, CoverByInv, PTL

CapacityStep ==
    root.state = "Capacity" /\ root' # root /\ root'.epoch = root.epoch
       => \/ root'.state = "Capacity" /\ jobs' = jobs
          \/ asked = [job |-> root.epoch, rev |-> jobs[root.epoch].rev]

(* A step ends a block for capacity as CapacityStep says, by the invariant. *)
LEMMA CapacityByInv == ASSUME IInv, [Next]_vars PROVE CapacityStep
  <1>0. TypeOK /\ EpochsClose /\ ClaimsAreExact
    BY Zenon DEF IInv
  <1> SUFFICES ASSUME root.state = "Capacity", root' # root, root'.epoch = root.epoch
               PROVE  \/ root'.state = "Capacity" /\ jobs' = jobs
                      \/ asked = [job |-> root.epoch, rev |-> jobs[root.epoch].rev]
    BY Zenon DEF CapacityStep
  <1>1. CASE BindScope
    <2>1. root \in Root /\ root' = [root EXCEPT !.rev = @ + 1] /\ jobs' = jobs
      BY Zenon, <1>0, <1>1 DEF BindScope, TypeOK
    <2> QED
      BY Zenon, <2>1 DEF Root
  <1>2. CASE Resume
    <2>1. asked.job = root.epoch /\ asked.rev = jobs[root.epoch].rev
      BY Zenon, <1>2 DEF Resume, Resumable
    <2>2. asked = [job |-> asked.job, rev |-> asked.rev]
      BY Zenon, <1>0 DEF TypeOK
    <2> QED
      BY Zenon, <2>1, <2>2
  <1>3. CASE ControlStep
    <2>1. BeginEpoch /\ root.epoch \in Nat
      BY <1>0, <1>3, Constants DEF ControlStep, Control, TypeOK, Root
    <2>2. root'.epoch = root.epoch + 1
      BY Zenon, <2>1, <1>0, BeginEpochIs
    <2> QED
      BY <2>1, <2>2
  <1>4. ASSUME NEW w \in Worker, Commit(w) PROVE FALSE
    <2>1. worker[w].job \in Job /\ worker[w].pc = "planned" /\ UNCHANGED <<producer, pin>>
      BY Zenon, <1>0, <1>4 DEF Commit, ClaimsAreExact, ClaimOK, Busy
    <2>2. PageStep(w) \/ FeedbackStep(w)
      BY Zenon, <1>4, <2>1, CommitCases DEF PageStep, FeedbackStep, Ineffective
    <2>3. ~PageStep(w)
      BY Zenon, PageIsCurrent
    <2>4. ~FeedbackStep(w)
      BY Zenon, FeedbackIs
    <2> QED
      BY Zenon, <2>2, <2>3, <2>4
  <1>5. ASSUME NEW w \in Worker, Fail(w) PROVE FALSE
    <2> DEFINE j == worker[w].job
    <2>1. /\ j \in Job /\ (worker[w].err = "AuthorityDenied" => j \in Source)
          /\ Holds(w) => jobs[j].status = "Leased"
      BY Zenon, <1>0, <1>5 DEF Fail, ClaimsAreExact, ClaimOK, Busy, Working
    <2>2. Holds(w) /\ jobs[j].held
      BY Zenon, <1>5 DEF Fail
    <2>3. j \in Epoch
      BY Zenon, <2>1, <2>2, <1>0, <1>5, FailIs
    <2> QED
      BY Zenon, <2>1, <2>2, <2>3, <1>0, LeasedIsCurrent
  <1>6. BindScope \/ Resume \/ ControlStep \/ \E w \in Worker : Commit(w) \/ Fail(w)
    BY Zenon DEF Next, vars, WorkerNext, SourceNext, ControlStep, EnsureIntent, Archive, Choose, Claim, Plan,
           StoreFault, Crash, Elapse, Status, RaiseCapacity
  <1> QED
    BY Zenon, <1>1, <1>2, <1>3, <1>4, <1>5, <1>6

(* A capacity block is left only by the governor's resume of that very block  *)
(* or by a newer epoch: no claim, retry, page or reopened worker clears it.   *)
THEOREM CapacityHolds == Spec => CapacityNeedsResume
  <1>1. IInv /\ [Next]_vars => [CapacityStep]_vars
    BY CapacityByInv
  <1> QED
    BY <1>1, Inductive, PTL DEF Spec, CapacityNeedsResume, CapacityStep

=============================================================================
