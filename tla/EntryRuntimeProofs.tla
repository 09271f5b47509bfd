--------------------------- MODULE EntryRuntimeProofs ---------------------------
(***************************************************************************)
(* Proofs about the learning service, and about the cache of entry runtimes   *)
(* that is composed with it, for any threads, identities, scopes, handles,    *)
(* attachments and limits. That the steps of the service keep its invariant   *)
(* is in LearningServiceSteps.                                               *)
(***************************************************************************)
EXTENDS EntryRuntimes, LearningServiceSteps

Once(q) == \A i, k \in 1..Len(q) : q[i] = q[k] => i = k

(* The list of the cached scopes names each of them once. *)
ListOK(list, ca) ==
    /\ Once(list)
    /\ Range(list) = {s \in Scope : ca[s] # None}

(* A runtime is cached for one scope or remembered for one; one that a thread  *)
(* holds is one of the two; and a scope with a cached runtime remembers none   *)
(* that a thread holds.                                                        *)
RefsOK(ca, ev, rf) ==
    /\ \A s, t \in Scope : ca[s] = ca[t] /\ ca[s] # None => s = t
    /\ \A s, t \in Scope : ev[s] = ev[t] /\ ev[s] # None => s = t
    /\ \A s, t \in Scope : ca[s] # None => ca[s] # ev[t]
    /\ \A h \in Handle : (\E c \in Caller : h \in rf[c]) => \E s \in Scope : ca[s] = h \/ ev[s] = h
    /\ \A s \in Scope : ca[s] # None /\ ev[s] # None => \A c \in Caller : ev[s] \notin rf[c]

(* The runtimes that a request has to close. *)
ToClose(c) == IF mgr[c].pc \in {"build", "close"} THEN mgr[c].close ELSE <<>>

(* The call that drops a runtime is under way. *)
Dropping(c, h) == call[c] \in DetachCall /\ call[c].op = "drop" /\ call[c].handle = h

MutexInv == \A c \in Caller : mutex = c <=> mgr[c].pc = "build"

CacheInv ==
    /\ ListOK(lru, cached) /\ Len(lru) <= MaxRuntimes
    /\ RefsOK(cached, evicted, refs)

(* A runtime that is used or waits to be closed has its attachment. *)
AttachedInv ==
    \A h \in Handle :
        Usable(h) \/ (\E c \in Caller : h \in Range(ToClose(c))) =>
            handle[h] # None /\ \A d \in Caller : ~Dropping(d, h)

(* The runtime that is built belongs to nobody yet, and its scope has none. *)
Unbuilt(h, s) ==
    /\ ~Usable(h)
    /\ \A t \in Scope : evicted[t] # h
    /\ \A d \in Caller : ~Dropping(d, h) /\ h \notin Range(ToClose(d))
    /\ cached[s] = None /\ evicted[s] = None

BuildInv ==
    \A c \in Caller, h \in Handle, s \in Scope :
        mgr[c].pc = "build" /\ mgr[c].runtime = h /\ mgr[c].scope = s => Unbuilt(h, s)

(* Each of them is used by nobody and is closed once. *)
CloseInv ==
    /\ \A c \in Caller : \A h \in Range(ToClose(c)) : ~Usable(h)
    /\ \A c \in Caller : Once(ToClose(c))
    /\ \A c, d \in Caller : c # d => Range(ToClose(c)) \cap Range(ToClose(d)) = {}

ManagerInv == EntryTypeOK /\ MutexInv /\ CacheInv /\ AttachedInv /\ BuildInv /\ CloseInv


(* The list counts the cached scopes, and its positions can be counted. *)
CacheCounted ==
    /\ Cardinality(Cached) = Len(lru)
    /\ \A n \in 0..Len(lru) : \A P \in SUBSET (1..n) : Cardinality(P) \in Nat

FirstOf(q, n) == {q[k] : k \in 1..n}
Rest(r, q, n) == Len(r) = Len(q) - n /\ \A i \in 1..Len(q) - n : r[i] = q[n + i]

(* What is left of a list without duplicates after its first n elements. *)
LEMMA CutFacts ==
    ASSUME NEW S, NEW q \in Seq(S), Once(q), NEW n \in 0..Len(q), NEW r \in Seq(S), Rest(r, q, n)
    PROVE  Once(r) /\ Range(r) = Range(q) \ FirstOf(q, n)
  <1>00. \A i, k \in 1..Len(q) : q[i] = q[k] => i = k
    BY DEF Once
  <1>0. \A p \in Seq(S) : Range(p) = {p[i] : i \in 1..Len(p)}
    BY DEF Range
  <1>1. /\ r \in Seq(S) /\ Len(r) = Len(q) - n
        /\ \A i \in 1..Len(q) - n : r[i] = q[n + i]
    BY DEF Rest
  <1>2. \A i, k \in 1..Len(r) : r[i] = r[k] => i = k
    <2> SUFFICES ASSUME NEW i \in 1..Len(r), NEW k \in 1..Len(r), r[i] = r[k] PROVE i = k
      OBVIOUS
    <2>1. n + i \in 1..Len(q) /\ n + k \in 1..Len(q) /\ r[i] = q[n + i] /\ r[k] = q[n + k]
      BY <1>1
    <2>2. n + i = n + k
      BY Zenon, <1>00, <2>1
    <2> QED BY <2>2
  <1>3. ASSUME NEW i \in 1..Len(r) PROVE r[i] \in Range(q) \ {q[k] : k \in 1..n}
    <2>1. r[i] = q[n + i] /\ n + i \in 1..Len(q) /\ \A k \in 1..n : k \in 1..Len(q) /\ k # n + i
      BY <1>1, <1>3
    <2>2. \A k \in 1..n : q[k] # q[n + i]
      BY <1>00, <2>1
    <2> QED BY Zenon, <2>1, <2>2, <1>0
  <1>4. ASSUME NEW m \in 1..Len(q), q[m] \notin {q[k] : k \in 1..n} PROVE q[m] \in Range(r)
    <2>1. ~(m \in 1..n)
      BY <1>4
    <2>2. m - n \in 1..Len(r) /\ r[m - n] = q[m]
      BY <1>1, <2>1
    <2> QED BY <1>0, <1>1, <2>2
  <1>5. Range(r) = Range(q) \ {q[k] : k \in 1..n}
    <2>1. Range(r) \subseteq Range(q) \ {q[k] : k \in 1..n}
      BY <1>0, <1>1, <1>3
    <2>2. ASSUME NEW x \in Range(q), x \notin {q[k] : k \in 1..n} PROVE x \in Range(r)
      <3>1. PICK m \in 1..Len(q) : x = q[m]
        BY <1>0
      <3> QED BY <2>2, <3>1, <1>4
    <2> QED BY <2>1, <2>2
  <1> QED BY <1>2, <1>5 DEF Once, FirstOf

(* SubSeq leaves exactly that. *)
LEMMA FrontCut ==
    ASSUME NEW S, NEW q \in Seq(S), NEW n \in 0..Len(q)
    PROVE  SubSeq(q, n + 1, Len(q)) \in Seq(S) /\ Rest(SubSeq(q, n + 1, Len(q)), q, n)
  BY DEF Rest

(* Appending a new element keeps a list free of duplicates. *)
LEMMA AppendedOnce ==
    ASSUME NEW S, NEW q \in Seq(S), \A i, k \in 1..Len(q) : q[i] = q[k] => i = k,
           NEW e \in S, e \notin Range(q)
    PROVE  \A i, k \in 1..Len(Append(q, e)) : Append(q, e)[i] = Append(q, e)[k] => i = k
  <1>1. /\ Len(Append(q, e)) = Len(q) + 1 /\ Len(q) \in Nat
        /\ \A i \in 1 .. Len(q) : Append(q, e)[i] = q[i] /\ q[i] \in Range(q)
        /\ Append(q, e)[Len(q) + 1] = e
    BY AppendRange
  <1> QED BY <1>1

(* Moving a scope to the end of the list keeps its elements and its length. *)
LEMMA TouchedIs ==
    ASSUME NEW q \in Seq(Scope), \A i, k \in 1..Len(q) : q[i] = q[k] => i = k, NEW s \in Range(q)
    PROVE  /\ Touched(q, s) \in Seq(Scope) /\ Len(Touched(q, s)) = Len(q) /\ Range(Touched(q, s)) = Range(q)
           /\ \A i, k \in 1..Len(Touched(q, s)) : Touched(q, s)[i] = Touched(q, s)[k] => i = k
  <1> DEFINE r == Without(q, s)
  <1>1. /\ r \in Seq(Scope) /\ Range(r) = Range(q) \ {s}
        /\ \A i, k \in 1 .. Len(r) : r[i] = r[k] => i = k
    BY WithoutIs
  <1>2. s \in Scope
    <2>1. DOMAIN q = 1..Len(q) /\ \A i \in 1..Len(q) : q[i] \in Scope
      OBVIOUS
    <2>2. PICK i \in DOMAIN q : q[i] = s
      BY Zenon DEF Range
    <2> QED BY <2>1, <2>2
  <1>4. Len(r) = Len(q) - 1
    BY WithoutIs
  <1> HIDE DEF r
  <1>5. /\ Append(r, s) \in Seq(Scope) /\ Len(Append(r, s)) = Len(r) + 1
        /\ Range(Append(r, s)) = Range(r) \cup {s}
    BY <1>1, <1>2, AppendRange
  <1>6. \A i, k \in 1..Len(Append(r, s)) : Append(r, s)[i] = Append(r, s)[k] => i = k
    BY <1>1, <1>2, AppendedOnce
  <1>7. Touched(q, s) = Append(r, s)
    BY DEF Touched, r
  <1>8. Len(Append(r, s)) = Len(q) /\ Range(Append(r, s)) = Range(q)
    BY <1>1, <1>4, <1>5
  <1> QED BY <1>5, <1>6, <1>7, <1>8

(* What evict_to_limit leaves. *)
Evicts(limit) ==
    /\ Excess(limit) \in 0..Len(lru) /\ Victims(limit) \subseteq Cached
    /\ CachedAfter(limit) \in [Scope -> Handle \cup {None}]
    /\ WeakAfter(limit) \in [Scope -> Handle \cup {None}]
    /\ LruAfter(limit) \in Seq(Scope) /\ Len(LruAfter(limit)) <= limit
    /\ ListOK(LruAfter(limit), CachedAfter(limit))
    /\ RefsOK(CachedAfter(limit), WeakAfter(limit), refs)
    /\ \A s \in Scope : /\ CachedAfter(limit)[s] \in {cached[s], None}
                        /\ \/ WeakAfter(limit)[s] = evicted[s]
                           \/ cached[s] # None /\ Held(cached[s]) /\ WeakAfter(limit)[s] = cached[s]

(* What an eviction down to a limit leaves cached, listed and remembered. *)
LEMMA EvictIs ==
    ASSUME EntryTypeOK, CacheInv, CacheCounted, NEW limit \in Nat
    PROVE  Evicts(limit)
  <1>0. /\ cached \in [Scope -> Handle \cup {None}] /\ evicted \in [Scope -> Handle \cup {None}]
        /\ lru \in Seq(Scope) /\ refs \in [Caller -> SUBSET Handle]
        /\ \A i, k \in 1..Len(lru) : lru[i] = lru[k] => i = k
        /\ Range(lru) = Cached
        /\ RefsOK(cached, evicted, refs)
    BY DEF EntryTypeOK, CacheInv, ListOK, Once, Cached
  <1>1. Cardinality(Cached) = Len(lru) /\ Len(lru) \in Nat
    BY <1>0 DEF CacheCounted
  <1>2. Excess(limit) \in 0..Len(lru) /\ Len(lru) - Excess(limit) <= limit
    BY <1>1 DEF Excess
  <1>3. /\ LruAfter(limit) \in Seq(Scope) /\ Len(LruAfter(limit)) = Len(lru) - Excess(limit)
        /\ \A i, k \in 1..Len(LruAfter(limit)) : LruAfter(limit)[i] = LruAfter(limit)[k] => i = k
        /\ Range(LruAfter(limit)) = Range(lru) \ Victims(limit)
    <2> DEFINE n == Excess(limit)
    <2>1. n \in 0..Len(lru)
      BY <1>2
    <2>2. LruAfter(limit) = SubSeq(lru, n + 1, Len(lru)) /\ Victims(limit) = FirstOf(lru, n)
      BY DEF LruAfter, Victims, FirstOf
    <2> HIDE DEF n
    <2>3. lru \in Seq(Scope) /\ Once(lru)
      BY <1>0 DEF Once
    <2>4. LruAfter(limit) \in Seq(Scope) /\ Rest(LruAfter(limit), lru, n)
      BY <2>1, <2>2, <2>3, FrontCut
    <2>5. Once(LruAfter(limit)) /\ Range(LruAfter(limit)) = Range(lru) \ FirstOf(lru, n)
      BY <2>1, <2>3, <2>4, CutFacts
    <2> QED BY <2>2, <2>4, <2>5 DEF n, Once, Rest
  <1>4. Victims(limit) \subseteq Cached
    <2>1. \A k \in 1..Len(lru) : lru[k] \in Range(lru)
      BY <1>0 DEF Range
    <2>2. \A k \in 1..Excess(limit) : lru[k] \in Cached
      BY <1>0, <1>2, <2>1
    <2> QED BY <2>2 DEF Victims
  <1> DEFINE V == Victims(limit)
             ca == CachedAfter(limit)
             ev == WeakAfter(limit)
  <1>5. /\ ca = [s \in Scope |-> IF s \in V THEN None ELSE cached[s]]
        /\ ev = [s \in Scope |-> IF s \in V /\ Held(cached[s]) THEN cached[s] ELSE evicted[s]]
    BY DEF CachedAfter, WeakAfter
  <1>6. V \subseteq Scope /\ \A s \in V : cached[s] # None
    BY <1>4 DEF Cached
  <1> HIDE DEF V, ca, ev
  <1>7. ca \in [Scope -> Handle \cup {None}] /\ ev \in [Scope -> Handle \cup {None}]
    BY <1>0, <1>5
  <1>8. \A s \in Scope : /\ ca[s] \in {cached[s], None}
                         /\ \/ ev[s] = evicted[s]
                            \/ cached[s] # None /\ Held(cached[s]) /\ ev[s] = cached[s]
    BY <1>5, <1>6
  <1>9. {s \in Scope : ca[s] # None} = Cached \ V
    BY <1>5, <1>6 DEF Cached
  <1>10. RefsOK(ca, ev, refs)
    <2>1. \A s, t \in Scope : ca[s] = ca[t] /\ ca[s] # None => s = t
      BY <1>0, <1>5 DEF RefsOK
    <2>2. \A s, t \in Scope : ev[s] = ev[t] /\ ev[s] # None => s = t
      BY <1>0, <1>5, <1>6 DEF RefsOK
    <2>3. \A s, t \in Scope : ca[s] # None => ca[s] # ev[t]
      BY <1>0, <1>5, <1>6 DEF RefsOK
    <2>4. ASSUME NEW h \in Handle, \E c \in Caller : h \in refs[c]
          PROVE  \E s \in Scope : ca[s] = h \/ ev[s] = h
      <3>1. PICK s \in Scope : cached[s] = h \/ evicted[s] = h
        BY <1>0, <2>4 DEF RefsOK
      <3>2. CASE cached[s] = h
        BY <1>5, <2>4, <3>2 DEF Held
      <3>3. CASE evicted[s] = h
        <4>1. s \in V => cached[s] # None /\ evicted[s] # None
          <5>1. h # None
            BY EntryAssumption
          <5> QED BY <1>6, <3>3, <5>1
        <4>2. s \notin V
          BY <1>0, <2>4, <3>3, <4>1 DEF RefsOK
        <4> QED BY <1>5, <3>3, <4>2
      <3> QED BY <3>1, <3>2, <3>3
    <2>5. \A s \in Scope : ca[s] # None /\ ev[s] # None => \A c \in Caller : ev[s] \notin refs[c]
      BY Zenon, <1>0, <1>5 DEF RefsOK
    <2> QED BY <2>1, <2>2, <2>3, <2>4, <2>5 DEF RefsOK
  <1>11. ListOK(LruAfter(limit), ca)
    BY <1>0, <1>3, <1>9 DEF ListOK, Once, V
  <1> QED BY <1>2, <1>3, <1>4, <1>7, <1>8, <1>10, <1>11 DEF Evicts, V, ca, ev


(* The runtimes that evict_to_limit hands over to be closed. *)
LEMMA UnusedIs ==
    ASSUME EntryTypeOK, CacheInv, CacheCounted, NEW limit \in Nat, NEW list \in Unused(limit)
    PROVE  /\ list \in Seq(Handle) /\ Once(list)
           /\ \A h \in Range(list) : ~Held(h) /\ \E s \in Victims(limit) : cached[s] = h
  <1> DEFINE P == {k \in 1..Excess(limit) : ~Held(cached[lru[k]])}
             m == Cardinality(P)
  <1>0. /\ Excess(limit) \in 0..Len(lru) /\ Victims(limit) \subseteq Cached
        /\ lru \in Seq(Scope) /\ cached \in [Scope -> Handle \cup {None}]
        /\ Once(lru) /\ RefsOK(cached, evicted, refs)
    BY Zenon, EvictIs DEF Evicts, EntryTypeOK, CacheInv, ListOK
  <1>1. m \in Nat
    <2>1. P \in SUBSET (1..Excess(limit))
      OBVIOUS
    <2> HIDE DEF P
    <2> QED BY <1>0, <2>1 DEF CacheCounted
  <1>2. PICK f \in [1..m -> P] :
           /\ \A a, b \in 1..m : a < b => f[a] < f[b]
           /\ list = [n \in 1..m |-> cached[lru[f[n]]]]
    <2>1. PICK f \in Ascending(P) : list = [n \in DOMAIN f |-> cached[lru[f[n]]]]
      BY Zenon DEF Unused
    <2>2. f \in [1..m -> P] /\ \A a, b \in 1..m : a < b => f[a] < f[b]
      BY Zenon, <2>1 DEF Ascending
    <2> QED BY Zenon, <2>1, <2>2
  <1> HIDE DEF m
  <1>3. ASSUME NEW n \in 1..m
        PROVE  /\ f[n] \in 1..Len(lru) /\ lru[f[n]] \in Victims(limit) /\ lru[f[n]] \in Scope
               /\ list[n] = cached[lru[f[n]]] /\ list[n] \in Handle /\ ~Held(list[n])
    <2>1. f[n] \in 1..Excess(limit) /\ ~Held(cached[lru[f[n]]]) /\ list[n] = cached[lru[f[n]]]
      BY Zenon, <1>2
    <2>2. f[n] \in 1..Len(lru) /\ lru[f[n]] \in Victims(limit)
      BY <1>0, <2>1 DEF Victims
    <2>3. lru[f[n]] \in Scope /\ cached[lru[f[n]]] # None
      BY Zenon, <1>0, <2>2 DEF Cached
    <2>4. list[n] \in Handle
      BY <1>0, <2>1, <2>3
    <2> QED BY Zenon, <2>1, <2>2, <2>3, <2>4
  <1> HIDE DEF P
  <1>4. list \in Seq(Handle) /\ Len(list) = m
    <2>1. list \in [1..m -> Handle]
      BY <1>2, <1>3
    <2> QED BY <1>1, <2>1
  <1>5. ASSUME NEW a \in 1..m, NEW b \in 1..m, list[a] = list[b] PROVE a = b
    <2>1. lru[f[a]] = lru[f[b]]
      <3>1. cached[lru[f[a]]] = cached[lru[f[b]]] /\ cached[lru[f[a]]] # None
        BY <1>3, <1>5, EntryAssumption
      <3> QED BY Zenon, <1>0, <1>3, <3>1 DEF RefsOK
    <2>2. f[a] = f[b]
      BY Zenon, <1>0, <1>3, <2>1 DEF Once
    <2>3. ~(f[a] < f[b]) /\ ~(f[b] < f[a])
      BY <1>3, <2>2
    <2>4. ~(a < b) /\ ~(b < a)
      BY <1>2, <2>3
    <2> QED BY <2>4, <1>1
  <1>6. Once(list)
    BY <1>4, <1>5 DEF Once
  <1>7. ASSUME NEW h \in Range(list) PROVE ~Held(h) /\ \E s \in Victims(limit) : cached[s] = h
    <2>1. PICK n \in 1..m : h = list[n]
      BY <1>4 DEF Range
    <2> QED BY <1>3, <2>1
  <1> QED BY <1>4, <1>6, <1>7

(* The weak references that are left when the dead ones are pruned. *)
Prunes(ev, ev2, rf) ==
    \A s \in Scope : \/ ev2[s] = ev[s] /\ \E c \in Caller : ev[s] \in rf[c]
                     \/ ev2[s] = None /\ (ev[s] = None \/ \A c \in Caller : ev[s] \notin rf[c])

Forgets(ca, ev) == \A s \in Scope : ca[s] # None => ev[s] = None

(* Forgetting runtimes that no thread holds keeps the references consistent. *)
LEMMA PruneKeeps ==
    ASSUME NEW ca, NEW ev, NEW ev2, NEW rf, RefsOK(ca, ev, rf), Prunes(ev, ev2, rf)
    PROVE  RefsOK(ca, ev2, rf) /\ Forgets(ca, ev2)
  <1> USE DEF Prunes
  <1>1. \A s, t \in Scope : ca[s] = ca[t] /\ ca[s] # None => s = t
    BY DEF RefsOK
  <1>2. \A s, t \in Scope : ev2[s] = ev2[t] /\ ev2[s] # None => s = t
    BY DEF RefsOK
  <1>3. \A s, t \in Scope : ca[s] # None => ca[s] # ev2[t]
    BY DEF RefsOK
  <1>4. ASSUME NEW h \in Handle, NEW c \in Caller, h \in rf[c]
        PROVE  \E s \in Scope : ca[s] = h \/ ev2[s] = h
    <2>1. PICK s \in Scope : ca[s] = h \/ ev[s] = h
      BY <1>4 DEF RefsOK
    <2>2. ev[s] = h => ev2[s] = h
      BY <1>4, EntryAssumption
    <2> QED BY <2>1, <2>2
  <1>5. \A s \in Scope : ca[s] # None => ev2[s] = None
    BY DEF RefsOK
  <1> QED BY Zenon, <1>1, <1>2, <1>3, <1>4, <1>5 DEF RefsOK, Forgets

(* The program point of a request tells which record it is. *)
LEMMA RequestShape ==
    ASSUME NEW r \in RequestType
    PROVE  /\ r.pc \in {"idle", "lock", "build", "close"}
           /\ r.pc = "lock" => r \in LockRequest
           /\ r.pc = "build" => r \in BuildRequest
           /\ r.pc = "close" => r \in CloseRequest
  <1>1. CASE r = NoRequest
    BY <1>1 DEF NoRequest
  <1>2. CASE r \in LockRequest
    BY <1>2 DEF LockRequest
  <1>3. CASE r \in BuildRequest
    BY <1>3 DEF BuildRequest
  <1>4. CASE r \in CloseRequest
    BY <1>4 DEF CloseRequest
  <1> QED BY <1>1, <1>2, <1>3, <1>4 DEF RequestType

(* What a request has to close is a list of runtimes. *)
LEMMA ToCloseType ==
    ASSUME EntryTypeOK, NEW c \in Caller
    PROVE  ToClose(c) \in Seq(Handle)
  <1>1. mgr[c] \in RequestType
    BY DEF EntryTypeOK
  <1>2. CASE mgr[c].pc \in {"build", "close"}
    <2>1. mgr[c].close \in Seq(Handle)
      BY <1>1, <1>2, RequestShape DEF BuildRequest, CloseRequest
    <2> QED BY <1>2, <2>1 DEF ToClose
  <1>3. CASE mgr[c].pc \notin {"build", "close"}
    BY <1>3 DEF ToClose
  <1> QED BY <1>2, <1>3

(* A thread that moves its request leaves the other requests alone. *)
LEMMA MgrGoes ==
    ASSUME EntryTypeOK, NEW c \in Caller, NEW r \in RequestType, mgr' = [mgr EXCEPT ![c] = r]
    PROVE  /\ mgr' \in [Caller -> RequestType] /\ mgr'[c] = r
           /\ \A d \in Caller \ {c} : mgr'[d] = mgr[d] /\ ToClose(d)' = ToClose(d)
           /\ ToClose(c)' = IF r.pc \in {"build", "close"} THEN r.close ELSE <<>>
  <1>1. mgr' \in [Caller -> RequestType] /\ mgr'[c] = r /\ \A d \in Caller \ {c} : mgr'[d] = mgr[d]
    BY DEF EntryTypeOK
  <1> QED BY <1>1 DEF ToClose


(* A runtime that an eviction hands over is unused, unheld and no longer      *)
(* cached.                                                                    *)
LEMMA EvictedAre ==
    ASSUME EntryTypeOK, CacheInv, CacheCounted, NEW limit \in Nat, NEW list \in Unused(limit), NEW h \in Range(list)
    PROVE  h \in Handle /\ Usable(h) /\ ~Held(h) /\ \A t \in Scope : CachedAfter(limit)[t] # h
  <1>1. list \in Seq(Handle) /\ ~Held(h)
    BY UnusedIs
  <1>2. PICK s \in Victims(limit) : cached[s] = h
    BY Zenon, UnusedIs
  <1>3. s \in Scope /\ cached[s] # None
    BY EvictIs DEF Evicts, Cached
  <1>4. h \in Handle
    BY <1>2, <1>3 DEF EntryTypeOK
  <1>5. ASSUME NEW t \in Scope, CachedAfter(limit)[t] = h PROVE FALSE
    <2>1. t \notin Victims(limit) /\ cached[t] = h
      BY <1>5, <1>4, EntryAssumption DEF CachedAfter
    <2>2. s = t
      BY Zenon, <1>2, <1>3, <2>1 DEF CacheInv, RefsOK
    <2> QED BY <2>1, <2>2
  <1> QED BY <1>1, <1>2, <1>3, <1>4, <1>5 DEF Usable

(* The clauses on closing survive a move of one request whose list is apart   *)
(* from the others.                                                           *)
LEMMA CloseKeeps ==
    ASSUME EntryTypeOK, CloseInv, NEW c \in Caller, NEW r \in RequestType,
           mgr' = [mgr EXCEPT ![c] = r],
           NEW q, q = ToClose(c)', Once(q),
           \A h \in Range(q) : ~Usable(h)',
           \A d \in Caller \ {c} : \A h \in Range(ToClose(d)) : ~Usable(h)' /\ h \notin Range(q)
    PROVE  CloseInv'
  <1>1. /\ mgr'[c] = r /\ \A d \in Caller \ {c} : mgr'[d] = mgr[d] /\ ToClose(d)' = ToClose(d)
    BY Zenon, MgrGoes
  <1>2. \A d \in Caller : \A h \in Range(ToClose(d)') : ~Usable(h)'
    BY Zenon, <1>1
  <1>3. \A d \in Caller : Once(ToClose(d)')
    BY Zenon, <1>1 DEF CloseInv
  <1>4. ASSUME NEW d \in Caller, NEW e \in Caller, d # e, NEW h, h \in Range(ToClose(d)'), h \in Range(ToClose(e)')
        PROVE  FALSE
    <2>1. CASE d # c /\ e # c
      BY Zenon, <1>1, <1>4, <2>1 DEF CloseInv
    <2>2. CASE d = c
      BY Zenon, <1>1, <1>4, <2>2
    <2>3. CASE e = c
      BY Zenon, <1>1, <1>4, <2>3
    <2> QED BY Zenon, <2>1, <2>2, <2>3
  <1>5. \A d, e \in Caller : d # e => Range(ToClose(d)') \cap Range(ToClose(e)') = {}
    BY Zenon, <1>4
  <1>6. /\ \A d \in Caller : \A h \in Range(ToClose(d))' : ~Usable(h)'
        /\ \A d \in Caller : Once(ToClose(d))'
        /\ \A d, e \in Caller : d # e => (Range(ToClose(d)) \cap Range(ToClose(e)))' = {}
    BY Zenon, <1>2, <1>3, <1>5 DEF Once, Range
  <1> QED BY <1>6 DEF CloseInv

(* Two lists without duplicates and without common elements, one after the    *)
(* other.                                                                     *)
LEMMA ConcatOnce ==
    ASSUME NEW S, NEW p \in Seq(S), NEW q \in Seq(S), Once(p), Once(q), Range(p) \cap Range(q) = {}
    PROVE  p \o q \in Seq(S) /\ Once(p \o q) /\ Range(p \o q) = Range(p) \cup Range(q)
  <1>0. \A r \in Seq(S) : Range(r) = {r[i] : i \in 1..Len(r)}
    BY DEF Range
  <1>1. /\ p \o q \in Seq(S) /\ Len(p \o q) = Len(p) + Len(q) /\ Len(p) \in Nat /\ Len(q) \in Nat
        /\ \A i \in 1..Len(p) + Len(q) : (p \o q)[i] = IF i <= Len(p) THEN p[i] ELSE q[i - Len(p)]
    OBVIOUS
  <1> DEFINE r == p \o q
  <1>2. /\ r \in Seq(S) /\ Len(r) = Len(p) + Len(q) /\ Len(p) \in Nat /\ Len(q) \in Nat
        /\ \A i \in 1..Len(p) : r[i] = p[i]
        /\ \A i \in Len(p) + 1..Len(p) + Len(q) : r[i] = q[i - Len(p)] /\ i - Len(p) \in 1..Len(q)
    BY <1>1
  <1> HIDE DEF r
  <1>3. /\ Range(p) = {p[i] : i \in 1..Len(p)} /\ Range(q) = {q[i] : i \in 1..Len(q)}
        /\ Range(r) = {r[i] : i \in 1..Len(r)}
    BY Zenon, <1>0, <1>2
  <1>4. ASSUME NEW x \in Range(r) PROVE x \in Range(p) \cup Range(q)
    <2>1. PICK i \in 1..Len(r) : x = r[i]
      BY Zenon, <1>3
    <2>2. CASE i <= Len(p)
      BY <1>2, <1>3, <2>1, <2>2
    <2>3. CASE ~(i <= Len(p))
      <3>1. i \in Len(p) + 1..Len(p) + Len(q)
        BY <1>2, <2>3
      <3> QED BY Zenon, <1>2, <1>3, <2>1, <3>1
    <2> QED BY Zenon, <2>2, <2>3
  <1>5. ASSUME NEW x \in Range(p) \cup Range(q) PROVE x \in Range(r)
    <2>1. CASE x \in Range(p)
      <3>1. PICK i \in 1..Len(p) : x = p[i]
        BY Zenon, <1>3, <2>1
      <3>2. i \in 1..Len(r)
        BY <1>2
      <3>3. r[i] = x
        BY Zenon, <1>2, <3>1
      <3> QED BY Zenon, <1>3, <3>2, <3>3
    <2>2. CASE x \in Range(q)
      <3>1. PICK i \in 1..Len(q) : x = q[i]
        BY Zenon, <1>3, <2>2
      <3> DEFINE k == Len(p) + i
      <3>2. k \in Len(p) + 1..Len(p) + Len(q) /\ k - Len(p) = i /\ k \in 1..Len(r)
        BY <1>2
      <3> HIDE DEF k
      <3>3. r[k] = x
        BY Zenon, <1>2, <3>1, <3>2
      <3> QED BY Zenon, <1>3, <3>2, <3>3
    <2> QED BY Zenon, <2>1, <2>2
  <1>6. ASSUME NEW i \in 1..Len(r), NEW k \in 1..Len(r), r[i] = r[k] PROVE i = k
    <2>1. CASE i <= Len(p) /\ k <= Len(p)
      BY <1>2, <1>6, <2>1 DEF Once
    <2>2. CASE ~(i <= Len(p)) /\ ~(k <= Len(p))
      <3>1. /\ i - Len(p) \in 1..Len(q) /\ k - Len(p) \in 1..Len(q)
            /\ q[i - Len(p)] = q[k - Len(p)]
        BY <1>2, <1>6, <2>2
      <3>2. i - Len(p) = k - Len(p)
        BY Zenon, <3>1 DEF Once
      <3> QED BY <1>2, <3>2
    <2>3. CASE i <= Len(p) /\ ~(k <= Len(p))
      <3>0. i \in 1..Len(p) /\ k \in Len(p) + 1..Len(p) + Len(q)
        BY <1>2, <2>3
      <3>1. r[i] \in Range(p) /\ r[k] \in Range(q)
        BY Zenon, <1>2, <1>3, <3>0
      <3> QED BY Zenon, <1>0, <3>1, <1>6
    <2>4. CASE ~(i <= Len(p)) /\ k <= Len(p)
      <3>0. k \in 1..Len(p) /\ i \in Len(p) + 1..Len(p) + Len(q)
        BY <1>2, <2>4
      <3>1. r[k] \in Range(p) /\ r[i] \in Range(q)
        BY Zenon, <1>2, <1>3, <3>0
      <3> QED BY Zenon, <1>0, <3>1, <1>6
    <2> QED BY <2>1, <2>2, <2>3, <2>4
  <1>7. Once(r) /\ Range(r) = Range(p) \cup Range(q)
    BY <1>4, <1>5, <1>6 DEF Once
  <1> QED BY <1>2, <1>7 DEF r


(* A request that only goes on. *)
LEMMA PlainRequest ==
    ASSUME ManagerInv, NEW c \in Caller, NEW r \in RequestType, mgr' = [mgr EXCEPT ![c] = r],
           UNCHANGED <<cached, evicted, lru, refs, handle, call>>,
           ToClose(c)' = ToClose(c), r.pc # "build",
           mutex' = IF mgr[c].pc = "build" THEN None ELSE mutex
    PROVE  ManagerInv'
  <1>0. EntryTypeOK /\ MutexInv /\ CacheInv /\ AttachedInv /\ BuildInv /\ CloseInv
    BY DEF ManagerInv
  <1>1. /\ mgr' \in [Caller -> RequestType] /\ mgr'[c] = r
        /\ \A d \in Caller \ {c} : mgr'[d] = mgr[d] /\ ToClose(d)' = ToClose(d)
    BY Zenon, <1>0, MgrGoes
  <1>2. EntryTypeOK'
    BY <1>0, <1>1 DEF EntryTypeOK
  <1>3. MutexInv'
    BY Zenon, <1>0, <1>1, EntryAssumption DEF MutexInv
  <1>4. CacheInv'
    BY Zenon, <1>0 DEF CacheInv, ListOK, RefsOK
  <1>5. \A h : Usable(h)' <=> Usable(h)
    BY DEF Usable, Held
  <1>6. \A d \in Caller : ToClose(d)' = ToClose(d)
    BY <1>1
  <1>7. \A d \in Caller : \A h : Dropping(d, h)' <=> Dropping(d, h)
    BY Zenon DEF Dropping
  <1>8. AttachedInv'
    BY Zenon, <1>0, <1>5, <1>6, <1>7 DEF AttachedInv, Range
  <1>9. BuildInv'
    <2> SUFFICES ASSUME NEW d \in Caller, NEW h \in Handle, NEW s \in Scope,
                        mgr'[d].pc = "build", mgr'[d].runtime = h, mgr'[d].scope = s
                 PROVE  Unbuilt(h, s)'
      BY Zenon DEF BuildInv
    <2>1. mgr'[d] = mgr[d]
      BY Zenon, <1>1
    <2>2. Unbuilt(h, s)
      BY <1>0, <2>1 DEF BuildInv
    <2> QED BY <1>5, <1>6, <1>7, <2>2 DEF Unbuilt, Range
  <1>10. CloseInv'
    <2>1. Once(ToClose(c)) /\ \A h \in Range(ToClose(c)) : ~Usable(h)'
      BY Zenon, <1>0, <1>5 DEF CloseInv
    <2>2. \A d \in Caller \ {c} : \A h \in Range(ToClose(d)) : ~Usable(h)' /\ h \notin Range(ToClose(c))
      BY <1>0, <1>5 DEF CloseInv
    <2> QED BY Zenon, <1>0, <2>1, <2>2, CloseKeeps
  <1> QED BY <1>2, <1>3, <1>4, <1>8, <1>9, <1>10 DEF ManagerInv

(* A new request keeps the invariant. *)
LEMMA RequestKeeps ==
    ASSUME ManagerInv, NEW c \in Caller, NEW s \in Scope, NEW limit \in 1..MaxRuntimes, Request(c, s, limit)
    PROVE  ManagerInv'
  <1> DEFINE r == [pc |-> "lock", scope |-> s, limit |-> limit]
  <1>1. r \in RequestType /\ r.pc = "lock"
    BY Zenon DEF RequestType, LockRequest
  <1>2. /\ mgr' = [mgr EXCEPT ![c] = r] /\ mgr[c].pc = "idle" /\ mutex' = mutex
        /\ UNCHANGED <<cached, evicted, lru, refs, handle, call>>
    BY DEF Request, NoRequest, vars
  <1> HIDE DEF r
  <1>3. ToClose(c)' = ToClose(c)
    <2>1. mgr'[c] = r
      BY <1>2 DEF ManagerInv, EntryTypeOK
    <2> QED BY <1>1, <1>2, <2>1 DEF ToClose
  <1> QED BY Zenon, <1>1, <1>2, <1>3, PlainRequest

(* So does the end of a request. *)
LEMMA AnswerKeeps ==
    ASSUME ManagerInv, NEW c \in Caller, Answer(c)
    PROVE  ManagerInv'
  <1>1. NoRequest \in RequestType /\ NoRequest.pc = "idle"
    BY Zenon DEF RequestType, NoRequest
  <1>2. /\ mgr' = [mgr EXCEPT ![c] = NoRequest] /\ mgr[c].pc = "close" /\ mgr[c].close = <<>> /\ mutex' = mutex
        /\ UNCHANGED <<cached, evicted, lru, refs, handle, call>>
    BY Zenon DEF Answer, vars
  <1>3. ToClose(c)' = ToClose(c)
    <2>1. mgr'[c] = NoRequest
      BY <1>2 DEF ManagerInv, EntryTypeOK
    <2> QED BY <1>1, <1>2, <2>1 DEF ToClose
  <1> QED BY Zenon, <1>1, <1>2, <1>3, PlainRequest

(* So does a build that fails. *)
LEMMA BuildFailedKeeps ==
    ASSUME ManagerInv, NEW c \in Caller, BuildFailed(c)
    PROVE  ManagerInv'
  <1> DEFINE r == [pc |-> "close", close |-> mgr[c].close, stage |-> "detach"]
  <1>0. mgr[c].pc = "build" /\ mgr[c] \in RequestType
    BY Zenon DEF BuildFailed, ManagerInv, EntryTypeOK
  <1>1. r \in RequestType /\ r.pc = "close" /\ r.close = mgr[c].close
    <2>1. mgr[c].close \in Seq(Handle)
      BY Zenon, <1>0, RequestShape DEF BuildRequest
    <2> QED BY <2>1 DEF RequestType, CloseRequest
  <1>2. /\ mgr' = [mgr EXCEPT ![c] = r] /\ mutex' = None
        /\ UNCHANGED <<cached, evicted, lru, refs, handle, call>>
    BY Zenon DEF BuildFailed, vars
  <1> HIDE DEF r
  <1>3. ToClose(c)' = ToClose(c)
    <2>1. mgr'[c] = r
      BY Zenon, <1>2 DEF ManagerInv, EntryTypeOK
    <2> QED BY <1>0, <1>1, <1>2, <2>1 DEF ToClose
  <1> QED BY Zenon, <1>0, <1>1, <1>2, <1>3, PlainRequest


(* A runtime that can be handed out. *)
Attached(h) == handle[h] # None /\ \A d \in Caller : ~Dropping(d, h) /\ h \notin Range(ToClose(d))

(* A runtime that can still be used has its attachment. *)
LEMMA UsableAttached ==
    ASSUME ManagerInv, NEW h \in Handle, Usable(h)
    PROVE  Attached(h)
  BY Zenon DEF ManagerInv, AttachedInv, CloseInv, Attached

(* What a request under the lock does to the runtimes that are to be closed. *)
LEMMA HandsOver ==
    ASSUME ManagerInv, NEW c \in Caller, NEW r \in RequestType, mgr' = [mgr EXCEPT ![c] = r],
           UNCHANGED handle,
           \A d \in Caller : \A h \in Handle : Dropping(d, h)' => Dropping(d, h),
           NEW q \in Seq(Handle), q = ToClose(c)', Once(q),
           \A h \in Handle : Usable(h)' => Attached(h) /\ h \notin Range(q),
           \A h \in Range(q) : h \in Range(ToClose(c)) \/ Usable(h)
    PROVE  AttachedInv' /\ CloseInv'
  <1>0. EntryTypeOK /\ AttachedInv /\ CloseInv
    BY DEF ManagerInv
  <1>1. /\ mgr'[c] = r
        /\ \A d \in Caller \ {c} : mgr'[d] = mgr[d] /\ ToClose(d)' = ToClose(d)
    BY Zenon, <1>0, MgrGoes
  <1>2. Range(q) \subseteq Handle /\ \A d \in Caller : Range(ToClose(d)) \subseteq Handle
    BY <1>0, ToCloseType DEF Range
  <1>3. \A h \in Handle : Usable(h) => Attached(h)
    BY Zenon, UsableAttached
  <1>4. ASSUME NEW h \in Handle, Usable(h)' \/ \E d \in Caller : h \in Range(ToClose(d))'
        PROVE  handle'[h] # None /\ \A d \in Caller : ~Dropping(d, h)'
    <2>1. CASE Usable(h)'
      BY Zenon, <2>1 DEF Attached
    <2>2. CASE \E d \in Caller : h \in Range(ToClose(d))'
      <3>1. PICK d \in Caller : h \in Range(ToClose(d)')
        BY Zenon, <2>2 DEF Range
      <3>2. CASE d = c
        BY Zenon, <1>0, <1>3, <3>1, <3>2 DEF Attached, AttachedInv
      <3>3. CASE d # c
        BY Zenon, <1>0, <1>1, <3>1, <3>3 DEF AttachedInv
      <3> QED BY Zenon, <3>2, <3>3
    <2> QED BY <1>4, <2>1, <2>2
  <1>5. AttachedInv'
    BY <1>4 DEF AttachedInv
  <1>6. \A h \in Range(q) : ~Usable(h)'
    BY Zenon, <1>2
  <1>7. ASSUME NEW d \in Caller \ {c}, NEW h \in Range(ToClose(d)) PROVE ~Usable(h)' /\ h \notin Range(q)
    <2>1. h \in Handle /\ ~Usable(h) /\ h \notin Range(ToClose(c))
      BY <1>0, <1>2, <1>7 DEF CloseInv
    <2> QED BY Zenon, <2>1, <1>7 DEF Attached
  <1>8. CloseInv'
    BY Zenon, <1>0, <1>6, <1>7, CloseKeeps
  <1> QED BY Zenon, <1>5, <1>8

(* What the weak references are once those that cannot be upgraded are        *)
(* forgotten.                                                                 *)
LEMMA PrunedIs ==
    ASSUME EntryTypeOK, CacheInv, CacheCounted, NEW limit \in Nat
    PROVE  /\ Pruned(limit) \in [Scope -> Handle \cup {None}]
           /\ RefsOK(CachedAfter(limit), Pruned(limit), refs)
           /\ \A s \in Scope : Pruned(limit)[s] # None => Held(Pruned(limit)[s])
           /\ \A s \in Scope : Upgradable(limit, s) => Pruned(limit)[s] = WeakAfter(limit)[s]
           /\ \A s \in Scope : ~Upgradable(limit, s) => Pruned(limit)[s] = None
           /\ \A s \in Scope : CachedAfter(limit)[s] # None => Pruned(limit)[s] = None
  <1> DEFINE ca == CachedAfter(limit)
             ev == WeakAfter(limit)
             pr == Pruned(limit)
  <1>1. ev \in [Scope -> Handle \cup {None}] /\ RefsOK(ca, ev, refs)
    BY Zenon, EvictIs DEF Evicts
  <1>2. \A s \in Scope : /\ Upgradable(limit, s) <=> ev[s] # None /\ Held(ev[s])
                         /\ pr[s] = IF Upgradable(limit, s) THEN ev[s] ELSE None
    BY Zenon DEF Upgradable, Pruned
  <1>3. pr \in [Scope -> Handle \cup {None}]
    <2>1. pr = [s \in Scope |-> IF Upgradable(limit, s) THEN ev[s] ELSE None]
      BY Zenon DEF Pruned
    <2> HIDE DEF pr, ev
    <2> QED BY Zenon, <1>1, <2>1
  <1> HIDE DEF ca, ev, pr
  <1>4. Prunes(ev, pr, refs)
    BY <1>2 DEF Held, Prunes
  <1>5. RefsOK(ca, pr, refs) /\ Forgets(ca, pr)
    BY Zenon, <1>1, <1>4, PruneKeeps
  <1>6. \A s \in Scope : pr[s] # None => Held(pr[s])
    BY Zenon, <1>2
  <1> QED BY Zenon, <1>2, <1>3, <1>5, <1>6 DEF ca, ev, pr, Forgets

(* A request that finds its runtime keeps the invariant. *)
LEMMA HitKeeps ==
    ASSUME ManagerInv, CacheCounted, NEW c \in Caller, Hit(c)
    PROVE  ManagerInv'
  <1> DEFINE s == mgr[c].scope
             limit == mgr[c].limit
             isCached == CachedAfter(limit)[s] # None
             x == IF isCached THEN cached[s] ELSE WeakAfter(limit)[s]
  <1>0. EntryTypeOK /\ MutexInv /\ CacheInv /\ AttachedInv /\ BuildInv /\ CloseInv
    BY DEF ManagerInv
  <1>1. PICK list \in Unused(limit) :
            mgr' = [mgr EXCEPT ![c] = [pc |-> "close", close |-> list, stage |-> "detach"]]
    BY Zenon DEF Hit
  <1>2. /\ mgr[c].pc = "lock" /\ mutex = None /\ mutex' = None
        /\ isCached \/ Upgradable(limit, s)
        /\ refs' = [refs EXCEPT ![c] = @ \cup {x}]
        /\ lru' = IF isCached THEN Touched(LruAfter(limit), s) ELSE LruAfter(limit)
        /\ cached' = CachedAfter(limit)
        /\ evicted' = Pruned(limit)
        /\ UNCHANGED <<handle, call>>
    BY Zenon DEF Hit, vars
  <1>3. s \in Scope /\ limit \in 1..MaxRuntimes /\ limit \in Nat /\ MaxRuntimes \in Nat
    <2>1. mgr[c] \in LockRequest
      BY Zenon, <1>0, <1>2, RequestShape DEF EntryTypeOK
    <2> QED BY <2>1, EntryAssumption DEF LockRequest
  <1> DEFINE r == [pc |-> "close", close |-> list, stage |-> "detach"]
  <1> HIDE DEF s, limit, isCached, x
  <1>4. Evicts(limit)
    BY Zenon, <1>0, <1>3, EvictIs
  <1>5. /\ list \in Seq(Handle) /\ Once(list)
        /\ \A h \in Range(list) : h \in Handle /\ Usable(h) /\ ~Held(h) /\ \A t \in Scope : cached'[t] # h
    BY Zenon, <1>0, <1>2, <1>3, UnusedIs, EvictedAre
  <1>6. r \in RequestType /\ r.pc = "close" /\ r.close = list
    BY Zenon, <1>5 DEF RequestType, CloseRequest
  <1>7. mgr' = [mgr EXCEPT ![c] = r]
    BY <1>1
  <1> HIDE DEF r
  <1>8. /\ mgr' \in [Caller -> RequestType] /\ mgr'[c] = r
        /\ \A d \in Caller \ {c} : mgr'[d] = mgr[d]
        /\ ToClose(c)' = list
    BY Zenon, <1>0, <1>6, <1>7, MgrGoes
  <1>9. /\ x \in Handle /\ Usable(x) /\ (cached'[s] = x \/ evicted'[s] = x)
        /\ isCached => cached'[s] = x
        /\ ~isCached => Held(x)
    <2>1. CASE isCached
      <3>1. CachedAfter(limit)[s] = cached[s] /\ cached[s] # None
        BY Zenon, <1>3, <1>4, <2>1 DEF Evicts, isCached
      <3> QED BY Zenon, <1>0, <1>2, <1>3, <2>1, <3>1 DEF x, Usable, EntryTypeOK
    <2>2. CASE ~isCached
      <3>1. Upgradable(limit, s) /\ Pruned(limit)[s] = WeakAfter(limit)[s]
        BY Zenon, <1>0, <1>2, <1>3, <2>2, PrunedIs
      <3>2. x # None /\ Held(x) /\ x = WeakAfter(limit)[s]
        BY Zenon, <2>2, <3>1 DEF Upgradable, x
      <3>3. x \in Handle
        BY Zenon, <1>3, <1>4, <3>2 DEF Evicts
      <3> QED BY Zenon, <1>2, <2>2, <3>1, <3>2, <3>3 DEF Usable
    <2> QED BY Zenon, <2>1, <2>2
  <1>10. /\ refs' \in [Caller -> SUBSET Handle] /\ refs'[c] = refs[c] \cup {x}
         /\ \A d \in Caller \ {c} : refs'[d] = refs[d]
    BY <1>0, <1>2, <1>9 DEF EntryTypeOK
  <1>11. /\ lru' \in Seq(Scope) /\ Len(lru') <= limit /\ ListOK(lru', cached')
    <2>1. /\ LruAfter(limit) \in Seq(Scope) /\ Len(LruAfter(limit)) <= limit /\ Once(LruAfter(limit))
          /\ Range(LruAfter(limit)) = {t \in Scope : cached'[t] # None}
      BY Zenon, <1>2, <1>4 DEF Evicts, ListOK
    <2>2. CASE isCached
      <3>1. s \in Range(LruAfter(limit))
        BY Zenon, <1>2, <1>3, <2>1, <2>2 DEF isCached
      <3>2. /\ Touched(LruAfter(limit), s) \in Seq(Scope)
            /\ Len(Touched(LruAfter(limit), s)) = Len(LruAfter(limit))
            /\ Range(Touched(LruAfter(limit), s)) = Range(LruAfter(limit))
            /\ Once(Touched(LruAfter(limit), s))
        BY Zenon, <2>1, <3>1, TouchedIs DEF Once
      <3> QED BY Zenon, <1>2, <2>1, <2>2, <3>2 DEF ListOK
    <2>3. CASE ~isCached
      BY Zenon, <1>2, <2>1, <2>3 DEF ListOK
    <2> QED BY Zenon, <2>2, <2>3
  <1>12. EntryTypeOK'
    <2>1. cached' \in [Scope -> Handle \cup {None}] /\ evicted' \in [Scope -> Handle \cup {None}]
      BY Zenon, <1>0, <1>2, <1>3, <1>4, PrunedIs DEF Evicts
    <2> QED BY <1>2, <1>8, <1>10, <1>11, <2>1 DEF EntryTypeOK
  <1>13. MutexInv'
    BY Zenon, <1>0, <1>2, <1>6, <1>8, EntryAssumption DEF MutexInv
  <1>14. CacheInv'
    <2>1. RefsOK(cached', evicted', refs) /\ \A t \in Scope : cached'[t] # None => evicted'[t] = None
      BY Zenon, <1>0, <1>2, <1>3, PrunedIs
    <2>2. RefsOK(cached', evicted', refs')
      BY Zenon, <1>3, <1>9, <1>10, <2>1 DEF RefsOK
    <2>3. Len(lru') <= MaxRuntimes
      BY <1>3, <1>11
    <2> QED BY Zenon, <1>11, <2>2, <2>3 DEF CacheInv, ListOK, RefsOK, Once, Range
  <1>15. \A h \in Handle : Usable(h)' => Usable(h) /\ (Held(h) \/ h = x \/ \E t \in Scope : cached'[t] = h)
    <2>1. \A t \in Scope : cached'[t] \in {cached[t], None}
      BY Zenon, <1>2, <1>4 DEF Evicts
    <2> QED BY <1>9, <1>10, <2>1, EntryAssumption DEF Usable, Held
  <1>16. AttachedInv' /\ CloseInv'
    <2>1. \A h \in Handle : Usable(h)' => Attached(h) /\ h \notin Range(list)
      BY <1>3, <1>5, <1>9, <1>15, UsableAttached
    <2>2. \A d \in Caller : \A h \in Handle : Dropping(d, h)' => Dropping(d, h)
      BY Zenon, <1>2 DEF Dropping
    <2> QED BY Zenon, <1>2, <1>5, <1>6, <1>7, <1>8, <2>1, <2>2, HandsOver
  <1>17. BuildInv'
    BY Zenon, <1>0, <1>2, <1>6, <1>8, EntryAssumption DEF MutexInv, BuildInv
  <1> QED BY <1>12, <1>13, <1>14, <1>16, <1>17 DEF ManagerInv


(* So does one that starts to build. *)
LEMMA MissKeeps ==
    ASSUME ManagerInv, CacheCounted, TypeOK, NEW c \in Caller, NEW h \in Handle, Miss(c, h)
    PROVE  ManagerInv'
  <1> DEFINE s == mgr[c].scope
             limit == mgr[c].limit
  <1>0. EntryTypeOK /\ MutexInv /\ CacheInv /\ AttachedInv /\ BuildInv /\ CloseInv
    BY DEF ManagerInv
  <1>1. PICK list \in Unused(limit) :
            mgr' = [mgr EXCEPT ![c] = [pc |-> "build", scope |-> s, runtime |-> h, limit |-> limit,
                                       close |-> list]]
    BY Zenon DEF Miss
  <1>2. /\ mgr[c].pc = "lock" /\ mutex = None /\ mutex' = c
        /\ CachedAfter(limit)[s] = None /\ ~Upgradable(limit, s)
        /\ lru' = LruAfter(limit)
        /\ cached' = CachedAfter(limit)
        /\ evicted' = Pruned(limit)
        /\ refs' = refs
        /\ Attach(c, IdentityOf[s], h)
    BY Zenon DEF Miss
  <1>3. s \in Scope /\ limit \in 1..MaxRuntimes /\ limit \in Nat /\ MaxRuntimes \in Nat /\ IdentityOf[s] \in Identity
    <2>1. mgr[c] \in LockRequest
      BY <1>0, <1>2, RequestShape DEF EntryTypeOK
    <2> QED BY <2>1, EntryAssumption DEF LockRequest
  <1> DEFINE r == [pc |-> "build", scope |-> s, runtime |-> h, limit |-> limit, close |-> list]
  <1> HIDE DEF s, limit
  <1>4. Evicts(limit)
    BY <1>0, <1>3, EvictIs
  <1>5. /\ list \in Seq(Handle) /\ Once(list)
        /\ \A x \in Range(list) : x \in Handle /\ Usable(x) /\ ~Held(x) /\ \A t \in Scope : cached'[t] # x
    BY Zenon, <1>0, <1>2, <1>3, UnusedIs, EvictedAre
  <1>6. /\ r \in RequestType /\ r.pc = "build" /\ r.close = list
        /\ r.runtime = h /\ r.scope = s
    BY Zenon, <1>3, <1>5 DEF RequestType, BuildRequest
  <1>7. mgr' = [mgr EXCEPT ![c] = r]
    BY <1>1
  <1> HIDE DEF r
  <1>8. /\ mgr' \in [Caller -> RequestType] /\ mgr'[c] = r
        /\ \A d \in Caller \ {c} : mgr'[d] = mgr[d] /\ ToClose(d)' = ToClose(d)
        /\ ToClose(c)' = list
    BY Zenon, <1>0, <1>6, <1>7, MgrGoes
  <1>9. /\ handle' = handle /\ handle[h] = None
        /\ \A d \in Caller : ~Dropping(d, h) /\ \A x \in Handle : Dropping(d, x)' => Dropping(d, x)
    <2> DEFINE a == [pc |-> "attach", op |-> "attach", identity |-> IdentityOf[s], handle |-> h]
    <2>1. handle' = handle /\ handle[h] = None /\ ~InUse(h) /\ call' = [call EXCEPT ![c] = a]
      BY Zenon, <1>2 DEF Attach, Goto
    <2>2. call'[c] = a /\ \A d \in Caller \ {c} : call'[d] = call[d]
      BY Zenon, <2>1 DEF TypeOK
    <2>3. ~Dropping(c, h)' /\ \A x \in Handle : ~Dropping(c, x)'
      BY <2>2 DEF Dropping
    <2> HIDE DEF a
    <2>4. \A d \in Caller : ~Dropping(d, h)
      <3>1. \A z \in DetachCall : "handle" \in DOMAIN z
        BY Zenon DEF DetachCall
      <3> QED BY Zenon, <2>1, <3>1 DEF InUse, Dropping
    <2>5. \A d \in Caller \ {c} : \A x \in Handle : Dropping(d, x)' => Dropping(d, x)
      BY <2>2 DEF Dropping
    <2> QED BY Zenon, <2>1, <2>3, <2>4, <2>5
  <1>10. lru' \in Seq(Scope) /\ Len(lru') <= limit /\ ListOK(lru', cached')
    BY Zenon, <1>2, <1>4 DEF Evicts
  <1>11. EntryTypeOK'
    <2>1. cached' \in [Scope -> Handle \cup {None}] /\ evicted' \in [Scope -> Handle \cup {None}]
      BY Zenon, <1>0, <1>2, <1>3, <1>4, PrunedIs DEF Evicts
    <2> QED BY <1>0, <1>2, <1>8, <1>10, <2>1 DEF EntryTypeOK
  <1>12. MutexInv'
    BY Zenon, <1>0, <1>2, <1>6, <1>8, EntryAssumption DEF MutexInv
  <1>13. CacheInv'
    <2>1. RefsOK(cached', evicted', refs')
      BY <1>0, <1>2, <1>3, PrunedIs
    <2>2. Len(lru') <= MaxRuntimes
      BY <1>3, <1>10
    <2> QED BY Zenon, <1>10, <2>1, <2>2 DEF CacheInv, ListOK, RefsOK, Once, Range
  <1>14. \A x \in Handle : Usable(x)' => Usable(x) /\ (Held(x) \/ \E t \in Scope : cached'[t] = x)
    <2>1. \A t \in Scope : cached'[t] \in {cached[t], None}
      BY Zenon, <1>2, <1>4 DEF Evicts
    <2> QED BY <1>2, <2>1, EntryAssumption DEF Usable, Held
  <1>15. AttachedInv' /\ CloseInv'
    <2>1. \A x \in Handle : Usable(x)' => Attached(x) /\ x \notin Range(list)
      BY <1>5, <1>14, UsableAttached
    <2> QED BY Zenon, <1>5, <1>6, <1>7, <1>8, <1>9, <2>1, HandsOver
  <1>16. BuildInv'
    <2> SUFFICES ASSUME NEW d \in Caller, NEW x \in Handle, NEW t \in Scope,
                        mgr'[d].pc = "build", mgr'[d].runtime = x, mgr'[d].scope = t
                 PROVE  Unbuilt(x, t)'
      BY Zenon DEF BuildInv
    <2>1. d = c /\ x = h /\ t = s
      <3>1. d = c
        BY Zenon, <1>0, <1>2, <1>8, EntryAssumption DEF MutexInv
      <3> QED BY <1>6, <1>8, <3>1
    <2>2. ~Usable(h)
      BY Zenon, <1>9, UsableAttached DEF Attached
    <2>3. ~Usable(h)'
      BY Zenon, <1>14, <2>2
    <2>4. \A u \in Scope : evicted'[u] # h
      <3>1. \A u \in Scope : Pruned(limit)[u] # None => Held(Pruned(limit)[u])
        BY Zenon, <1>0, <1>3, PrunedIs
      <3> QED BY Zenon, <1>2, <2>2, <3>1, EntryAssumption DEF Usable
    <2>5. \A e \in Caller : ~Dropping(e, h)'
      BY Zenon, <1>9
    <2>6. ASSUME NEW e \in Caller PROVE h \notin Range(ToClose(e)')
      <3>1. CASE e = c
        BY Zenon, <1>5, <1>8, <2>2, <3>1
      <3>2. CASE e # c
        BY <1>0, <1>8, <1>9, <3>2 DEF AttachedInv
      <3> QED BY Zenon, <3>1, <3>2
    <2>7. cached'[s] = None /\ evicted'[s] = None
      BY Zenon, <1>0, <1>2, <1>3, PrunedIs
    <2> QED BY Zenon, <2>1, <2>3, <2>4, <2>5, <2>6, <2>7 DEF Unbuilt, Range
  <1> QED BY <1>11, <1>12, <1>13, <1>15, <1>16 DEF ManagerInv

(* So does one that installs what it built. *)
LEMMA BuiltKeeps ==
    ASSUME ManagerInv, CacheCounted, NEW c \in Caller, Built(c)
    PROVE  ManagerInv'
  <1> DEFINE s == mgr[c].scope
             h == mgr[c].runtime
             limit == mgr[c].limit - 1
             old == mgr[c].close
  <1>0. EntryTypeOK /\ MutexInv /\ CacheInv /\ AttachedInv /\ BuildInv /\ CloseInv
    BY DEF ManagerInv
  <1>1. PICK list \in Unused(limit) :
            mgr' = [mgr EXCEPT ![c] = [pc |-> "close", close |-> old \o list, stage |-> "detach"]]
    BY Zenon DEF Built
  <1>2. /\ mgr[c].pc = "build" /\ handle[h] # None /\ mutex' = None
        /\ cached' = [CachedAfter(limit) EXCEPT ![s] = h]
        /\ evicted' = WeakAfter(limit)
        /\ lru' = Append(LruAfter(limit), s)
        /\ refs' = [refs EXCEPT ![c] = @ \cup {h}]
        /\ UNCHANGED <<handle, call>>
    BY Zenon DEF Built, vars
  <1>3. /\ s \in Scope /\ h \in Handle /\ limit \in Nat /\ limit + 1 <= MaxRuntimes /\ MaxRuntimes \in Nat
        /\ old \in Seq(Handle)
    <2>1. mgr[c] \in BuildRequest
      BY Zenon, <1>0, <1>2, RequestShape DEF EntryTypeOK
    <2> QED BY <2>1, EntryAssumption DEF BuildRequest
  <1>4. old = ToClose(c)
    BY Zenon, <1>2 DEF ToClose
  <1>5. Unbuilt(h, s)
    BY <1>0, <1>2, <1>3 DEF BuildInv
  <1> DEFINE r == [pc |-> "close", close |-> old \o list, stage |-> "detach"]
  <1> HIDE DEF s, h, limit, old
  <1>6. Evicts(limit)
    BY <1>0, <1>3, EvictIs
  <1>7. /\ list \in Seq(Handle) /\ Once(list)
        /\ \A x \in Range(list) : x \in Handle /\ Usable(x) /\ ~Held(x) /\ \A t \in Scope : CachedAfter(limit)[t] # x
    BY Zenon, <1>0, <1>3, UnusedIs, EvictedAre
  <1>8. /\ old \o list \in Seq(Handle) /\ Once(old \o list)
        /\ Range(old \o list) = Range(old) \cup Range(list)
    <2>1. Once(old) /\ \A x \in Range(old) : ~Usable(x)
      BY <1>0, <1>4 DEF CloseInv
    <2>2. Range(old) \cap Range(list) = {}
      BY Zenon, <1>7, <2>1
    <2> QED BY <1>3, <1>7, <2>1, <2>2, ConcatOnce
  <1>9. r \in RequestType /\ r.pc = "close" /\ r.close = old \o list
    BY Zenon, <1>8 DEF RequestType, CloseRequest
  <1>10. mgr' = [mgr EXCEPT ![c] = r]
    BY <1>1
  <1> HIDE DEF r
  <1>11. /\ mgr' \in [Caller -> RequestType] /\ mgr'[c] = r
         /\ \A d \in Caller \ {c} : mgr'[d] = mgr[d]
         /\ ToClose(c)' = old \o list
    BY Zenon, <1>0, <1>9, <1>10, MgrGoes
  <1>12. /\ refs' \in [Caller -> SUBSET Handle] /\ refs'[c] = refs[c] \cup {h}
         /\ \A d \in Caller \ {c} : refs'[d] = refs[d]
    BY <1>0, <1>2, <1>3 DEF EntryTypeOK
  <1>13. /\ cached' \in [Scope -> Handle \cup {None}] /\ cached'[s] = h
         /\ \A t \in Scope \ {s} : cached'[t] = CachedAfter(limit)[t]
         /\ CachedAfter(limit)[s] = None /\ evicted'[s] = None
         /\ \A t \in Scope : evicted'[t] # h /\ CachedAfter(limit)[t] # h
         /\ \A t \in Scope : CachedAfter(limit)[t] \in {cached[t], None}
    <2>1. CachedAfter(limit) \in [Scope -> Handle \cup {None}]
      BY Zenon, <1>6 DEF Evicts
    <2>2. cached[s] = None /\ evicted[s] = None /\ \A t \in Scope : evicted[t] # h /\ cached[t] # h
      BY <1>5 DEF Unbuilt, Usable
    <2>3. \A t \in Scope : /\ CachedAfter(limit)[t] \in {cached[t], None}
                           /\ evicted'[t] = evicted[t] \/ (cached[t] # None /\ evicted'[t] = cached[t])
      BY Zenon, <1>2, <1>6 DEF Evicts
    <2> QED BY Zenon, <1>2, <1>3, <2>1, <2>2, <2>3, EntryAssumption
  <1>14. lru' \in Seq(Scope) /\ Len(lru') <= MaxRuntimes /\ ListOK(lru', cached')
    <2>1. /\ LruAfter(limit) \in Seq(Scope) /\ Len(LruAfter(limit)) <= limit /\ Once(LruAfter(limit))
          /\ Range(LruAfter(limit)) = {t \in Scope : CachedAfter(limit)[t] # None}
      BY Zenon, <1>6 DEF Evicts, ListOK
    <2>2. s \notin Range(LruAfter(limit))
      BY Zenon, <1>13, <2>1
    <2>3. /\ lru' \in Seq(Scope) /\ Len(lru') = Len(LruAfter(limit)) + 1
          /\ Range(lru') = Range(LruAfter(limit)) \cup {s}
      BY <1>2, <1>3, <2>1, AppendRange
    <2>4. Once(lru')
      <3>1. lru' = Append(LruAfter(limit), s) /\ s \in Scope
        BY Zenon, <1>2, <1>3
      <3>2. \A i, k \in 1..Len(Append(LruAfter(limit), s)) :
               Append(LruAfter(limit), s)[i] = Append(LruAfter(limit), s)[k] => i = k
        BY Zenon, <2>1, <2>2, <3>1, AppendedOnce DEF Once
      <3> QED BY Zenon, <3>1, <3>2 DEF Once
    <2>5. Range(lru') = {t \in Scope : cached'[t] # None}
      BY Zenon, <1>3, <1>13, <2>1, <2>3, EntryAssumption
    <2>6. Len(lru') <= MaxRuntimes
      BY <1>3, <2>1, <2>3
    <2> QED BY Zenon, <2>3, <2>4, <2>5, <2>6 DEF ListOK
  <1>15. EntryTypeOK'
    <2>1. evicted' \in [Scope -> Handle \cup {None}]
      BY Zenon, <1>2, <1>6 DEF Evicts
    <2> QED BY Zenon, <1>2, <1>11, <1>12, <1>13, <1>14, <2>1 DEF EntryTypeOK
  <1>16. MutexInv'
    BY Zenon, <1>0, <1>2, <1>9, <1>11, EntryAssumption DEF MutexInv
  <1>17. CacheInv'
    <2>1. RefsOK(CachedAfter(limit), evicted', refs)
      BY Zenon, <1>2, <1>6 DEF Evicts
    <2>2. \A t, u \in Scope : cached'[t] = cached'[u] /\ cached'[t] # None => t = u
      BY <1>3, <1>13, <2>1 DEF RefsOK
    <2>3. \A t, u \in Scope : evicted'[t] = evicted'[u] /\ evicted'[t] # None => t = u
      BY Zenon, <2>1 DEF RefsOK
    <2>4. \A t, u \in Scope : cached'[t] # None => cached'[t] # evicted'[u]
      BY <1>13, <2>1 DEF RefsOK
    <2>5. ASSUME NEW x \in Handle, NEW d \in Caller, x \in refs'[d]
          PROVE  \E t \in Scope : cached'[t] = x \/ evicted'[t] = x
      <3>1. CASE x = h
        BY Zenon, <1>3, <1>13, <3>1
      <3>2. CASE x # h
        <4>1. x \in refs[d]
          BY Zenon, <1>12, <2>5, <3>2
        <4>2. PICK t \in Scope : CachedAfter(limit)[t] = x \/ evicted'[t] = x
          BY Zenon, <2>1, <4>1 DEF RefsOK
        <4> QED BY Zenon, <1>13, <4>2, EntryAssumption
      <3> QED BY Zenon, <3>1, <3>2
    <2>6. ASSUME NEW t \in Scope, cached'[t] # None, evicted'[t] # None, NEW d \in Caller
          PROVE  evicted'[t] \notin refs'[d]
      <3>1. t # s /\ CachedAfter(limit)[t] # None /\ evicted'[t] # h
        BY Zenon, <1>13, <2>6
      <3>2. evicted'[t] \notin refs[d]
        BY Zenon, <2>1, <2>6, <3>1 DEF RefsOK
      <3> QED BY Zenon, <1>12, <3>1, <3>2
    <2>7. RefsOK(cached', evicted', refs')
      BY Zenon, <2>2, <2>3, <2>4, <2>5, <2>6 DEF RefsOK
    <2> QED BY Zenon, <1>14, <2>7 DEF CacheInv, ListOK, RefsOK, Once, Range
  <1>18. \A x \in Handle : Usable(x)' =>
            x = h \/ (Usable(x) /\ (Held(x) \/ \E t \in Scope : CachedAfter(limit)[t] = x))
    BY <1>12, <1>13, EntryAssumption DEF Usable, Held
  <1>19. AttachedInv' /\ CloseInv'
    <2>1. Attached(h) /\ h \notin Range(list) /\ ~Usable(h)
      BY Zenon, <1>2, <1>5, <1>7 DEF Attached, Unbuilt
    <2>2. ASSUME NEW x \in Handle, Usable(x)' PROVE Attached(x) /\ x \notin Range(old \o list)
      <3>1. CASE x = h
        BY Zenon, <1>4, <1>8, <2>1, <3>1 DEF Attached
      <3>2. CASE x # h
        <4>1. Usable(x) /\ (Held(x) \/ \E t \in Scope : CachedAfter(limit)[t] = x)
          BY Zenon, <1>18, <2>2, <3>2
        <4>2. x \notin Range(list)
          BY Zenon, <1>7, <4>1
        <4>3. Attached(x)
          BY <4>1, UsableAttached
        <4> QED BY <1>4, <1>8, <4>2, <4>3 DEF Attached
      <3> QED BY Zenon, <3>1, <3>2
    <2>3. \A x \in Range(old \o list) : x \in Range(ToClose(c)) \/ Usable(x)
      BY Zenon, <1>4, <1>7, <1>8
    <2>4. \A d \in Caller : \A x \in Handle : Dropping(d, x)' => Dropping(d, x)
      BY <1>2 DEF Dropping
    <2> QED BY Zenon, <1>2, <1>8, <1>9, <1>10, <1>11, <2>2, <2>3, <2>4, HandsOver
  <1>20. BuildInv'
    BY Zenon, <1>0, <1>2, <1>9, <1>11, EntryAssumption DEF MutexInv, BuildInv
  <1> QED BY <1>15, <1>16, <1>17, <1>19, <1>20 DEF ManagerInv


(* What a step of the service may do to the handles of runtimes. *)
Gentle(h) ==
    /\ handle[h] # None => handle'[h] # None \/ \E d \in Caller : Dropping(d, h)
    /\ \A d \in Caller : Dropping(d, h)' => Dropping(d, h)

(* A step of the service that is gentle to every attachment keeps the         *)
(* invariant.                                                                 *)
LEMMA GentleKeeps ==
    ASSUME ManagerInv, UNCHANGED managerVars, \A h \in Handle : Gentle(h)
    PROVE  ManagerInv'
  <1>0. EntryTypeOK /\ MutexInv /\ CacheInv /\ AttachedInv /\ BuildInv /\ CloseInv
    BY DEF ManagerInv
  <1>1. UNCHANGED <<cached, evicted, lru, mutex, refs, mgr>>
    BY Zenon DEF managerVars
  <1>2. EntryTypeOK' /\ MutexInv' /\ CacheInv'
    BY Zenon, <1>0, <1>1 DEF EntryTypeOK, MutexInv, CacheInv, ListOK, RefsOK
  <1>3. \A h : Usable(h)' <=> Usable(h)
    BY Zenon, <1>1 DEF Usable, Held
  <1>4. \A d : ToClose(d)' = ToClose(d)
    BY <1>1 DEF ToClose
  <1>5. ASSUME NEW h \in Handle, Usable(h)' \/ \E d \in Caller : h \in Range(ToClose(d)')
        PROVE  handle'[h] # None /\ \A d \in Caller : ~Dropping(d, h)'
    <2>1. handle[h] # None /\ \A d \in Caller : ~Dropping(d, h)
      BY Zenon, <1>0, <1>3, <1>4, <1>5 DEF AttachedInv
    <2> QED BY Zenon, <2>1 DEF Gentle
  <1>6. AttachedInv'
    BY Zenon, <1>5 DEF AttachedInv, Range
  <1>7. BuildInv'
    <2> SUFFICES ASSUME NEW c \in Caller, NEW h \in Handle, NEW s \in Scope,
                        mgr'[c].pc = "build", mgr'[c].runtime = h, mgr'[c].scope = s
                 PROVE  Unbuilt(h, s)'
      BY Zenon DEF BuildInv
    <2>1. Unbuilt(h, s)
      BY Zenon, <1>0, <1>1 DEF BuildInv
    <2> QED BY Zenon, <1>1, <1>3, <1>4, <2>1 DEF Unbuilt, Gentle, Range
  <1>8. CloseInv'
    <2>1. \A c \in Caller : \A h \in Range(ToClose(c)') : ~Usable(h)'
      BY Zenon, <1>0, <1>3, <1>4 DEF CloseInv
    <2>2. \A c \in Caller : Once(ToClose(c)')
      BY Zenon, <1>0, <1>4 DEF CloseInv
    <2>3. \A c, d \in Caller : c # d => Range(ToClose(c)') \cap Range(ToClose(d)') = {}
      BY Zenon, <1>0, <1>4 DEF CloseInv
    <2>4. /\ \A c \in Caller : \A h \in Range(ToClose(c))' : ~Usable(h)'
          /\ \A c \in Caller : Once(ToClose(c))'
          /\ \A c, d \in Caller : c # d => (Range(ToClose(c)) \cap Range(ToClose(d)))' = {}
      BY Zenon, <2>1, <2>2, <2>3 DEF Once, Range
    <2> QED BY Zenon, <2>4 DEF CloseInv
  <1> QED BY <1>2, <1>6, <1>7, <1>8 DEF ManagerInv

(* A drop that still has to clear, retain or notify counts as dropping its    *)
(* attachment.                                                                *)
LEMMA DropIs ==
    ASSUME NEW c \in Caller, TypeOK, call[c].pc \in {"store", "retain", "notify"}, call[c].op = "drop"
    PROVE  Dropping(c, call[c].handle)
  <1>1. call[c] \in WakeCall \/ call[c] \in DetachCall
    BY Zenon, CallShape DEF TypeOK
  <1>2. call[c] \in DetachCall
    BY <1>1 DEF WakeCall
  <1> QED BY Zenon, <1>2 DEF Dropping

(* A step inside a call of the service keeps the invariant. *)
LEMMA InsideKeeps ==
    ASSUME ManagerInv, TypeOK, NEW c \in Caller, Inside(c), UNCHANGED managerVars
    PROVE  ManagerInv'
  <1>0. /\ \A h : ~(Idle \in DetachCall) /\ [pc |-> "notify", op |-> "attach"] \notin DetachCall
        /\ [pc |-> "loop", op |-> "shutdown", late |-> FALSE] \notin DetachCall
    BY Zenon DEF Idle, DetachCall
  <1>1. ASSUME call'[c] \notin DetachCall, \A d \in Caller \ {c} : call'[d] = call[d], NEW h \in Handle
        PROVE  \A d \in Caller : Dropping(d, h)' => Dropping(d, h)
    BY Zenon, <1>1 DEF Dropping
  <1>2. \A h \in Handle : Gentle(h)
    <2>1. CASE AttachRefused(c)
      <3>1. /\ UNCHANGED handle /\ call'[c] \notin DetachCall /\ \A d \in Caller \ {c} : call'[d] = call[d]
        BY Zenon, <1>0, <2>1, RefusedType DEF AttachRefused
      <3> QED BY Zenon, <1>1, <3>1 DEF Gentle
    <2>2. CASE AttachExisting(c) \/ AttachNew(c)
      <3>1. /\ call'[c] \notin DetachCall /\ \A d \in Caller \ {c} : call'[d] = call[d]
            /\ \E e \in Entry : handle' = [handle EXCEPT ![call[c].handle] = e]
        BY Zenon, <1>0, <2>2, AttachExistingType, AttachNewType
      <3>2. \A h \in Handle : handle[h] # None => handle'[h] # None
        BY Zenon, <3>1, ServiceAssumption DEF TypeOK
      <3> QED BY <1>1, <3>1, <3>2 DEF Gentle
    <2>3. CASE Retain(c)
      <3>1. /\ call[c].pc = "retain" /\ call[c] \in DetachCall /\ \A d \in Caller \ {c} : call'[d] = call[d]
            /\ \/ /\ call'[c] \in DetachCall
                  /\ call'[c].handle = call[c].handle /\ call'[c].op = call[c].op /\ UNCHANGED handle
               \/ /\ call'[c] = Idle
                  /\ handle' = [handle EXCEPT ![call[c].handle] = IF call[c].op = "drop" THEN None ELSE @]
        BY Zenon, <2>3, RetainType
      <3>2. ASSUME NEW h \in Handle, NEW d \in Caller, Dropping(d, h)' PROVE Dropping(d, h)
        BY Zenon, <1>0, <3>1, <3>2 DEF Dropping
      <3>3. ASSUME NEW h \in Handle, handle[h] # None, handle'[h] = None PROVE Dropping(c, h)
        BY Zenon, <3>1, <3>3 DEF TypeOK, Dropping
      <3> QED BY <3>2, <3>3 DEF Gentle
    <2>4. CASE Deactivate(c)
      <3>1. /\ call[c] \in DetachCall /\ \A d \in Caller \ {c} : call'[d] = call[d]
            /\ call'[c].handle = call[c].handle /\ call'[c].op = call[c].op /\ UNCHANGED handle
        BY Zenon, <2>4, DeactivateType
      <3>2. ASSUME NEW h \in Handle, NEW d \in Caller, Dropping(d, h)' PROVE Dropping(d, h)
        BY Zenon, <3>1, <3>2 DEF Dropping
      <3> QED BY Zenon, <3>1, <3>2 DEF Gentle
    <2>5. CASE Notify(c)
      <3>1. /\ call[c].pc = "notify" /\ \A d \in Caller \ {c} : call'[d] = call[d] /\ call'[c] \notin DetachCall
            /\ handle' = IF call[c].op = "drop" THEN [handle EXCEPT ![call[c].handle] = None] ELSE handle
        BY Zenon, <1>0, <2>5, NotifyType
      <3>2. call'[c] \notin DetachCall
        BY Zenon, <1>0, <2>5, NotifyType
      <3>3. ASSUME NEW h \in Handle, handle[h] # None, handle'[h] = None PROVE Dropping(c, h)
        <4>1. call[c].op = "drop" /\ call[c].handle = h
          BY Zenon, <3>1, <3>3 DEF TypeOK
        <4> QED BY Zenon, <3>1, <4>1, DropIs
      <3> QED BY <1>1, <3>1, <3>2, <3>3 DEF Gentle
    <2> QED BY Zenon, <2>1, <2>2, <2>3, <2>4, <2>5 DEF Inside
  <1> QED BY Zenon, <1>2, GentleKeeps

(* So does every step of the service and its worker. *)
LEMMA ServiceKeeps ==
    ASSUME ManagerInv, Service \/ WorkerPoll, UNCHANGED managerVars
    PROVE  ManagerInv'
  <1>1. UNCHANGED <<handle, call>>
    BY Zenon DEF Service, WorkerCheck, WorkerScan, WorkerEach, WorkerAfter, WorkerDecide, WorkerPoll, WorkerWoken
  <1>2. \A h \in Handle : Gentle(h)
    BY <1>1 DEF Gentle, Dropping
  <1> QED BY <1>2, GentleKeeps

(* Only a drop takes a handle away. *)
LEMMA DetachTakes ==
    ASSUME TypeOK, NEW c \in Caller, NEW h \in Handle, NEW op \in {"detach", "drop"}, Detach(c, h, op)
    PROVE  \A x \in Handle : x # h \/ op = "detach" =>
              /\ handle[x] # None => handle'[x] # None
              /\ \A d \in Caller : Dropping(d, x)' => Dropping(d, x)
  <1>1. DetachEffect(c, h, op)
    BY Zenon, DetachType
  <1>2. CASE /\ handle' = [handle EXCEPT ![h] = IF op = "drop" THEN None ELSE @]
             /\ UNCHANGED call
    BY Zenon, <1>2 DEF Dropping, TypeOK
  <1>3. CASE /\ call'[c] = [pc |-> "store", op |-> op, handle |-> h]
             /\ \A d \in Caller \ {c} : call'[d] = call[d] /\ handle' = handle
             /\ UNCHANGED handle
    BY <1>3 DEF Dropping
  <1> QED BY Zenon, <1>1, <1>2, <1>3 DEF DetachEffect

(* The records of a request that closes the runtimes of its list. *)
LEMMA CloseGoes ==
    ASSUME EntryTypeOK, NEW c \in Caller, mgr[c].pc = "close", mgr[c].close # <<>>,
           NEW stage \in {"detach", "close", "failed"}
    PROVE  /\ mgr[c].close \in Seq(Handle) /\ mgr[c].close = ToClose(c)
           /\ \E r \in RequestType : /\ [mgr EXCEPT ![c].stage = stage] = [mgr EXCEPT ![c] = r]
                                     /\ r.pc = "close" /\ r.close = mgr[c].close
           /\ \E r \in RequestType : /\ [mgr EXCEPT ![c].stage = stage, ![c].close = Tail(@)]
                                            = [mgr EXCEPT ![c] = r]
                                     /\ r.pc = "close" /\ r.close = Tail(mgr[c].close)
  <1>1. mgr[c] \in CloseRequest /\ mgr \in [Caller -> RequestType] /\ CloseRequest \subseteq RequestType
    BY Zenon, RequestShape DEF EntryTypeOK, RequestType
  <1>2. mgr[c].close \in Seq(Handle) /\ mgr[c].close = ToClose(c)
    BY Zenon, <1>1 DEF CloseRequest, ToClose
  <1>3. Tail(mgr[c].close) \in Seq(Handle)
    BY <1>2
  <1> DEFINE kept == [mgr[c] EXCEPT !.stage = stage]
             left == [[mgr[c] EXCEPT !.stage = stage] EXCEPT !.close = Tail(mgr[c].close)]
             old == [mgr EXCEPT ![c].stage = stage]
             new == [mgr EXCEPT ![c].stage = stage, ![c].close = Tail(@)]
  <1>4. old = [mgr EXCEPT ![c] = kept]
    BY <1>1
  <1>5. new = [mgr EXCEPT ![c] = left]
    BY Zenon, <1>1
  <1>6. kept \in CloseRequest /\ kept.pc = "close" /\ kept.close = mgr[c].close
    BY Zenon, <1>1 DEF CloseRequest
  <1>7. left \in CloseRequest /\ left.pc = "close" /\ left.close = Tail(mgr[c].close)
    BY Zenon, <1>1, <1>3 DEF CloseRequest
  <1> HIDE DEF kept, left, old, new
  <1>8. \E r \in RequestType : old = [mgr EXCEPT ![c] = r] /\ r.pc = "close" /\ r.close = mgr[c].close
    BY Zenon, <1>1, <1>4, <1>6
  <1>9. \E r \in RequestType : /\ new = [mgr EXCEPT ![c] = r] /\ r.pc = "close"
                               /\ r.close = Tail(mgr[c].close)
    BY Zenon, <1>1, <1>5, <1>7
  <1> QED BY Zenon, <1>2, <1>8, <1>9 DEF old, new


(* Detaching the first runtime of the list keeps the invariant. *)
LEMMA CloseDetachKeeps ==
    ASSUME ManagerInv, TypeOK, NEW c \in Caller, CloseDetach(c)
    PROVE  ManagerInv'
  <1>0. EntryTypeOK /\ MutexInv /\ CacheInv /\ AttachedInv /\ BuildInv /\ CloseInv
    BY DEF ManagerInv
  <1>1. /\ mgr[c].pc = "close" /\ mgr[c].close # <<>> /\ Detach(c, Head(mgr[c].close), "detach")
        /\ mgr' = [mgr EXCEPT ![c].stage = "close"]
        /\ UNCHANGED <<cached, evicted, lru, mutex, refs>>
    BY DEF CloseDetach
  <1>2. mgr[c].close \in Seq(Handle) /\ mgr[c].close = ToClose(c)
    BY Zenon, <1>0, <1>1, CloseGoes
  <1>3. PICK r \in RequestType : mgr' = [mgr EXCEPT ![c] = r] /\ r.pc = "close" /\ r.close = mgr[c].close
    BY Zenon, <1>0, <1>1, CloseGoes
  <1>4. /\ mgr' \in [Caller -> RequestType] /\ mgr'[c] = r
        /\ \A d \in Caller \ {c} : mgr'[d] = mgr[d] /\ ToClose(d)' = ToClose(d)
        /\ ToClose(c)' = ToClose(c)
    BY Zenon, <1>0, <1>2, <1>3, MgrGoes
  <1>5. Head(mgr[c].close) \in Handle
    BY <1>1, <1>2
  <1>6. \A x \in Handle : /\ handle[x] # None => handle'[x] # None
                          /\ \A d \in Caller : Dropping(d, x)' => Dropping(d, x)
    BY Zenon, <1>1, <1>5, DetachTakes
  <1>7. EntryTypeOK' /\ CacheInv'
    BY <1>0, <1>1, <1>4 DEF EntryTypeOK, CacheInv, ListOK, RefsOK
  <1>8. MutexInv'
    BY <1>0, <1>1, <1>3, <1>4 DEF MutexInv
  <1>9. \A x : Usable(x)' <=> Usable(x)
    BY Zenon, <1>1 DEF Usable, Held
  <1>10. \A d \in Caller : ToClose(d)' = ToClose(d)
    BY Zenon, <1>4
  <1>11. ASSUME NEW x \in Handle, Usable(x)' \/ \E d \in Caller : x \in Range(ToClose(d)')
         PROVE  handle'[x] # None /\ \A d \in Caller : ~Dropping(d, x)'
    <2>1. handle[x] # None /\ \A d \in Caller : ~Dropping(d, x)
      BY Zenon, <1>0, <1>9, <1>10, <1>11 DEF AttachedInv
    <2> QED BY Zenon, <1>6, <2>1
  <1>12. AttachedInv'
    BY <1>11 DEF AttachedInv, Range
  <1>13. BuildInv'
    <2> SUFFICES ASSUME NEW d \in Caller, NEW x \in Handle, NEW s \in Scope,
                        mgr'[d].pc = "build", mgr'[d].runtime = x, mgr'[d].scope = s
                 PROVE  Unbuilt(x, s)'
      BY Zenon DEF BuildInv
    <2>1. mgr'[d] = mgr[d]
      BY Zenon, <1>3, <1>4
    <2>2. Unbuilt(x, s)
      BY <1>0, <2>1 DEF BuildInv
    <2> QED BY Zenon, <1>1, <1>6, <1>9, <1>10, <2>2 DEF Unbuilt, Range
  <1>14. CloseInv'
    <2>1. Once(ToClose(c)) /\ \A x \in Range(ToClose(c)) : ~Usable(x)'
      BY <1>0, <1>9 DEF CloseInv
    <2>2. \A d \in Caller \ {c} : \A x \in Range(ToClose(d)) : ~Usable(x)' /\ x \notin Range(ToClose(c))
      BY Zenon, <1>0, <1>9 DEF CloseInv
    <2>3. r.close # <<>> /\ ToClose(c)' = ToClose(c)
      BY Zenon, <1>1, <1>3, <1>4
    <2> QED BY Zenon, <1>0, <1>3, <2>1, <2>2, <2>3, CloseKeeps
  <1> QED BY <1>7, <1>8, <1>12, <1>13, <1>14 DEF ManagerInv

(* The rest of a list without duplicates does not hold its head. *)
LEMMA TailOnce ==
    ASSUME NEW S, NEW q \in Seq(S), q # <<>>, Once(q)
    PROVE  /\ Tail(q) \in Seq(S) /\ Once(Tail(q)) /\ Head(q) \in S
           /\ Head(q) \in Range(q) /\ Range(Tail(q)) \subseteq Range(q) \ {Head(q)}
  <1>0. \A r \in Seq(S) : Range(r) = {r[i] : i \in 1..Len(r)}
    BY DEF Range
  <1>1. /\ Tail(q) \in Seq(S) /\ Len(Tail(q)) = Len(q) - 1 /\ Len(q) \in Nat /\ Len(q) > 0
        /\ Head(q) = q[1] /\ Head(q) \in S
        /\ \A i \in 1..Len(q) - 1 : Tail(q)[i] = q[i + 1] /\ i + 1 \in 1..Len(q)
    OBVIOUS
  <1>2. Once(Tail(q))
    BY <1>1 DEF Once
  <1>3. ASSUME NEW x \in Range(Tail(q)) PROVE x \in Range(q) /\ x # Head(q)
    <2>0. Range(Tail(q)) = {Tail(q)[i] : i \in 1..Len(Tail(q))}
      BY Zenon, <1>0, <1>1
    <2>1. PICK i \in 1..Len(Tail(q)) : x = Tail(q)[i]
      BY Zenon, <2>0
    <2>2. i \in 1..Len(q) - 1 /\ x = q[i + 1] /\ i + 1 \in 1..Len(q)
      BY Zenon, <1>1, <2>1
    <2>3. 1 \in 1..Len(q) /\ i + 1 # 1
      BY <1>1, <2>2
    <2>4. q[i + 1] # q[1]
      BY Zenon, <2>2, <2>3 DEF Once
    <2> QED BY <1>0, <1>1, <2>2, <2>4
  <1>4. Head(q) \in Range(q)
    BY <1>0, <1>1
  <1> QED BY Zenon, <1>1, <1>2, <1>3, <1>4

(* Dropping the runtime that was detached keeps the invariant. *)
LEMMA CloseDropKeeps ==
    ASSUME ManagerInv, TypeOK, NEW c \in Caller, CloseDrop(c)
    PROVE  ManagerInv'
  <1> DEFINE h == Head(mgr[c].close)
             q == Tail(mgr[c].close)
  <1>0. EntryTypeOK /\ MutexInv /\ CacheInv /\ AttachedInv /\ BuildInv /\ CloseInv
    BY DEF ManagerInv
  <1>1. /\ mgr[c].pc = "close" /\ mgr[c].close # <<>> /\ Detach(c, h, "drop")
        /\ \E stage \in {"detach", "failed"} : mgr' = [mgr EXCEPT ![c].stage = stage, ![c].close = Tail(@)]
        /\ UNCHANGED <<cached, evicted, lru, mutex, refs>>
    BY Zenon DEF CloseDrop
  <1>2. mgr[c].close \in Seq(Handle) /\ mgr[c].close = ToClose(c)
    BY Zenon, <1>0, <1>1, CloseGoes
  <1>3. PICK r \in RequestType : mgr' = [mgr EXCEPT ![c] = r] /\ r.pc = "close" /\ r.close = q
    <2>1. PICK stage \in {"detach", "failed"} : mgr' = [mgr EXCEPT ![c].stage = stage, ![c].close = Tail(@)]
      BY Zenon, <1>1
    <2> HIDE DEF h, q
    <2>2. mgr[c].pc = "close" /\ mgr[c].close # <<>> /\ stage \in {"detach", "close", "failed"}
      BY Zenon, <1>1
    <2>3. \E r \in RequestType : /\ [mgr EXCEPT ![c].stage = stage, ![c].close = Tail(@)]
                                         = [mgr EXCEPT ![c] = r]
                                 /\ r.pc = "close" /\ r.close = Tail(mgr[c].close)
      BY Zenon, <1>0, <2>2, CloseGoes
    <2> QED BY Zenon, <2>1, <2>3 DEF q
  <1>4. /\ q \in Seq(Handle) /\ Once(q) /\ h \in Handle /\ h \in Range(ToClose(c))
        /\ Range(q) \subseteq Range(ToClose(c)) \ {h}
    <2>1. Once(mgr[c].close)
      BY <1>0, <1>2 DEF CloseInv
    <2>2. /\ q \in Seq(Handle) /\ Once(q) /\ h \in Handle /\ h \in Range(mgr[c].close)
          /\ Range(q) \subseteq Range(mgr[c].close) \ {h}
      BY <1>1, <1>2, <2>1, TailOnce
    <2> QED BY Zenon, <1>2, <2>2
  <1> HIDE DEF h, q
  <1>5. /\ mgr' \in [Caller -> RequestType] /\ mgr'[c] = r
        /\ \A d \in Caller \ {c} : mgr'[d] = mgr[d] /\ ToClose(d)' = ToClose(d)
        /\ ToClose(c)' = q
    BY Zenon, <1>0, <1>3, MgrGoes
  <1>6. \A x \in Handle : x # h => /\ handle[x] # None => handle'[x] # None
                                   /\ \A d \in Caller : Dropping(d, x)' => Dropping(d, x)
    BY Zenon, <1>1, <1>4, DetachTakes
  <1>7. EntryTypeOK' /\ CacheInv'
    <2>1. UNCHANGED <<cached, evicted, lru, mutex, refs>>
      BY Zenon, <1>1
    <2> QED BY Zenon, <1>0, <1>5, <2>1 DEF EntryTypeOK, CacheInv, ListOK, RefsOK
  <1>8. MutexInv'
    BY <1>0, <1>1, <1>3, <1>5 DEF MutexInv
  <1>9. (\A x : Usable(x)' <=> Usable(x)) /\ ~Usable(h)
    BY Zenon, <1>0, <1>1, <1>4 DEF Usable, Held, CloseInv
  <1>10. /\ \A d \in Caller : Range(ToClose(d)') \subseteq Range(ToClose(d))
         /\ \A d \in Caller : h \notin Range(ToClose(d)')
    <2>1. \A d \in Caller \ {c} : h \notin Range(ToClose(d))
      BY Zenon, <1>0, <1>4 DEF CloseInv
    <2> QED BY Zenon, <1>4, <1>5, <2>1
  <1>11. ASSUME NEW x \in Handle, Usable(x)' \/ \E d \in Caller : x \in Range(ToClose(d)')
         PROVE  handle'[x] # None /\ \A d \in Caller : ~Dropping(d, x)'
    <2>1. handle[x] # None /\ \A d \in Caller : ~Dropping(d, x)
      BY Zenon, <1>0, <1>9, <1>10, <1>11 DEF AttachedInv
    <2>2. x # h
      BY <1>9, <1>10, <1>11
    <2> QED BY Zenon, <1>6, <2>1, <2>2
  <1>12. AttachedInv'
    BY <1>11 DEF AttachedInv, Range
  <1>13. BuildInv'
    <2> SUFFICES ASSUME NEW d \in Caller, NEW x \in Handle, NEW s \in Scope,
                        mgr'[d].pc = "build", mgr'[d].runtime = x, mgr'[d].scope = s
                 PROVE  Unbuilt(x, s)'
      BY DEF BuildInv
    <2>1. mgr'[d] = mgr[d]
      BY Zenon, <1>3, <1>5
    <2>2. Unbuilt(x, s)
      BY <1>0, <2>1 DEF BuildInv
    <2>3. x # h
      BY Zenon, <1>4, <2>2 DEF Unbuilt
    <2>4. \A e \in Caller : ~Dropping(e, x)' /\ x \notin Range(ToClose(e)')
      BY <1>6, <1>10, <2>2, <2>3 DEF Unbuilt
    <2> QED BY Zenon, <1>1, <1>9, <2>2, <2>4 DEF Unbuilt, Range
  <1>14. CloseInv'
    <2>1. \A x \in Range(q) : ~Usable(x)'
      BY Zenon, <1>0, <1>4, <1>9 DEF CloseInv
    <2>2. \A d \in Caller \ {c} : \A x \in Range(ToClose(d)) : ~Usable(x)' /\ x \notin Range(q)
      BY Zenon, <1>0, <1>4, <1>9 DEF CloseInv
    <2> QED BY Zenon, <1>0, <1>3, <1>4, <1>5, <2>1, <2>2, CloseKeeps
  <1> QED BY <1>7, <1>8, <1>12, <1>13, <1>14 DEF ManagerInv


(* So does a thread that lets go of its runtime. *)
LEMMA ReleaseKeeps ==
    ASSUME ManagerInv, TypeOK, NEW c \in Caller, NEW h \in Handle, Release(c, h)
    PROVE  ManagerInv'
  <1>0. EntryTypeOK /\ MutexInv /\ CacheInv /\ AttachedInv /\ BuildInv /\ CloseInv
    BY Zenon DEF ManagerInv
  <1>1. h \in refs[c] /\ refs' = [refs EXCEPT ![c] = @ \ {h}] /\ UNCHANGED <<cached, evicted, lru, mutex, mgr>>
    BY Zenon DEF Release
  <1>2. /\ refs' \in [Caller -> SUBSET Handle] /\ refs'[c] = refs[c] \ {h}
        /\ \A d \in Caller \ {c} : refs'[d] = refs[d]
    BY Zenon, <1>0, <1>1 DEF EntryTypeOK
  <1>3. \A d \in Caller : refs'[d] \subseteq refs[d]
    BY Zenon, <1>2
  <1>4. \A x : Usable(x)' => Usable(x)
    BY Zenon, <1>1, <1>3 DEF Usable, Held
  <1>5. Usable(h)
    BY Zenon, <1>1 DEF Usable, Held
  <1>6. \A d : ToClose(d)' = ToClose(d)
    BY Zenon, <1>1 DEF ToClose
  <1>7. \/ UNCHANGED <<handle, call>>
        \/ Detach(c, h, "drop") /\ ~Usable(h)'
    <2>1. CASE (\E d \in Caller \ {c} : h \in refs[d]) \/ \E s \in Scope : cached[s] = h
      BY <2>1 DEF Release, vars
    <2>2. CASE ~((\E d \in Caller \ {c} : h \in refs[d]) \/ \E s \in Scope : cached[s] = h)
      <3>1. Detach(c, h, "drop")
        BY Zenon, <2>2 DEF Release
      <3>2. ~Usable(h)'
        BY Zenon, <1>1, <1>2, <2>2 DEF Usable, Held
      <3> QED BY Zenon, <3>1, <3>2
    <2> QED BY Zenon, <2>1, <2>2
  <1>8. ASSUME NEW x \in Handle, x # h \/ Usable(h)'
        PROVE  /\ handle[x] # None => handle'[x] # None
               /\ \A d \in Caller : Dropping(d, x)' => Dropping(d, x)
    <2>1. CASE UNCHANGED <<handle, call>>
      BY Zenon, <2>1 DEF Dropping
    <2>2. CASE Detach(c, h, "drop") /\ ~Usable(h)'
      <3>1. x # h
        BY Zenon, <1>8, <2>2
      <3> QED BY Zenon, <2>2, <3>1, DetachTakes
    <2> QED BY Zenon, <1>7, <2>1, <2>2
  <1>9. EntryTypeOK' /\ MutexInv'
    BY <1>0, <1>1, <1>2 DEF EntryTypeOK, MutexInv
  <1>10. CacheInv'
    <2>1. RefsOK(cached, evicted, refs')
      BY Zenon, <1>0, <1>3 DEF CacheInv, RefsOK
    <2> QED BY Zenon, <1>0, <1>1, <2>1 DEF CacheInv, ListOK, RefsOK
  <1>11. ASSUME NEW x \in Handle, Usable(x)' \/ \E d \in Caller : x \in Range(ToClose(d)')
         PROVE  handle'[x] # None /\ \A d \in Caller : ~Dropping(d, x)'
    <2>1. handle[x] # None /\ \A d \in Caller : ~Dropping(d, x)
      BY Zenon, <1>0, <1>4, <1>6, <1>11 DEF AttachedInv
    <2>2. x # h \/ Usable(h)'
      BY Zenon, <1>0, <1>5, <1>6, <1>11 DEF CloseInv
    <2> QED BY Zenon, <1>8, <2>1, <2>2
  <1>12. AttachedInv'
    BY <1>11 DEF AttachedInv, Range
  <1>13. BuildInv'
    <2> SUFFICES ASSUME NEW d \in Caller, NEW x \in Handle, NEW s \in Scope,
                        mgr'[d].pc = "build", mgr'[d].runtime = x, mgr'[d].scope = s
                 PROVE  Unbuilt(x, s)'
      BY Zenon DEF BuildInv
    <2>1. Unbuilt(x, s)
      BY Zenon, <1>0, <1>1 DEF BuildInv
    <2>2. x # h
      BY <1>5, <2>1 DEF Unbuilt
    <2> QED BY Zenon, <1>1, <1>4, <1>6, <1>8, <2>1, <2>2 DEF Unbuilt, Range
  <1>14. CloseInv'
    <2>1. \A d \in Caller : \A x \in Range(ToClose(d)') : ~Usable(x)'
      BY Zenon, <1>0, <1>4, <1>6 DEF CloseInv
    <2>2. \A d \in Caller : Once(ToClose(d)')
      BY Zenon, <1>0, <1>6 DEF CloseInv
    <2>3. \A d, e \in Caller : d # e => Range(ToClose(d)') \cap Range(ToClose(e)') = {}
      BY Zenon, <1>0, <1>6 DEF CloseInv
    <2>4. /\ \A d \in Caller : \A x \in Range(ToClose(d))' : ~Usable(x)'
          /\ \A d \in Caller : Once(ToClose(d))'
          /\ \A d, e \in Caller : d # e => (Range(ToClose(d)) \cap Range(ToClose(e)))' = {}
      BY Zenon, <2>1, <2>2, <2>3 DEF Once, Range
    <2> QED BY Zenon, <2>4 DEF CloseInv
  <1> QED BY <1>9, <1>10, <1>12, <1>13, <1>14 DEF ManagerInv

(* A stuttering step keeps the invariant. *)
LEMMA ManagerStutter ==
    ASSUME ManagerInv, UNCHANGED entryVars
    PROVE  ManagerInv'
  <1>1. UNCHANGED managerVars /\ UNCHANGED <<handle, call>>
    BY Zenon DEF entryVars, vars
  <1>2. \A h \in Handle : Gentle(h)
    BY Zenon, <1>1 DEF Gentle, Dropping
  <1> QED BY <1>1, <1>2, GentleKeeps

(* Every step keeps the invariant of the manager. *)
LEMMA ManagerStep ==
    ASSUME ManagerInv, CacheCounted, TypeOK, [EntryNext]_entryVars
    PROVE  ManagerInv'
  <1>1. CASE (Service \/ WorkerPoll) /\ UNCHANGED managerVars
    BY <1>1, ServiceKeeps
  <1>2. ASSUME NEW c \in Caller, Inside(c), UNCHANGED managerVars PROVE ManagerInv'
    BY Zenon, <1>2, InsideKeeps
  <1>3. ASSUME NEW c \in Caller, Finish(c) PROVE ManagerInv'
    <2>1. ASSUME NEW h \in Handle, Miss(c, h) PROVE ManagerInv'
      BY Zenon, <2>1, MissKeeps
    <2> QED BY Zenon, <1>3, <2>1, HitKeeps, BuildFailedKeeps, BuiltKeeps, CloseDetachKeeps, CloseDropKeeps,
              AnswerKeeps DEF Finish
  <1>4. ASSUME NEW c \in Caller, NEW s \in Scope, NEW limit \in 1..MaxRuntimes, Request(c, s, limit)
        PROVE  ManagerInv'
    BY Zenon, <1>4, RequestKeeps
  <1>5. ASSUME NEW c \in Caller, NEW h \in Handle, Release(c, h) PROVE ManagerInv'
    BY <1>5, ReleaseKeeps
  <1>6. CASE UNCHANGED entryVars
    BY Zenon, <1>6, ManagerStutter
  <1> QED BY Zenon, <1>1, <1>2, <1>3, <1>4, <1>5, <1>6 DEF EntryNext

(* What a step of the manager is to the service. *)
LEMMA EntryIsService ==
    ASSUME ManagerInv, [EntryNext]_entryVars
    PROVE  [Next]_vars
  <1>1. CASE (Service \/ WorkerPoll) /\ UNCHANGED managerVars
    BY Zenon, <1>1 DEF Service, Next, Worker
  <1>2. ASSUME NEW c \in Caller, Inside(c) PROVE Next
    BY <1>2 DEF Inside, Next, Continue
  <1>3. ASSUME NEW c \in Caller, NEW h \in Handle, Miss(c, h) PROVE Next
    <2>1. mgr[c].pc = "lock" /\ Attach(c, IdentityOf[mgr[c].scope], h)
      BY <1>3 DEF Miss
    <2>2. mgr[c] \in LockRequest
      BY Zenon, <2>1, RequestShape DEF ManagerInv, EntryTypeOK
    <2>3. IdentityOf[mgr[c].scope] \in Identity
      BY Zenon, <2>2, EntryAssumption DEF LockRequest
    <2> QED BY Zenon, <2>1, <2>3 DEF Next, Start
  <1>4. ASSUME NEW c \in Caller, NEW h \in Handle, NEW op \in {"detach", "drop"}, Detach(c, h, op) PROVE Next
    BY Zenon, <1>4 DEF Next, Start
  <1>5. ASSUME NEW c \in Caller, CloseDetach(c) \/ CloseDrop(c) PROVE Next
    <2>1. mgr[c].pc = "close" /\ mgr[c].close # <<>>
      BY <1>5 DEF CloseDetach, CloseDrop
    <2>2. mgr[c].close \in Seq(Handle)
      BY Zenon, <2>1, CloseGoes DEF ManagerInv
    <2>3. Head(mgr[c].close) \in Handle
      BY <2>1, <2>2
    <2>4. Detach(c, Head(mgr[c].close), "detach") \/ Detach(c, Head(mgr[c].close), "drop")
      BY <1>5 DEF CloseDetach, CloseDrop
    <2> QED BY Zenon, <1>4, <2>3, <2>4
  <1>6. ASSUME NEW c \in Caller, NEW h \in Handle, Release(c, h) PROVE Next \/ UNCHANGED vars
    <2>1. UNCHANGED vars \/ Detach(c, h, "drop")
      BY <1>6 DEF Release
    <2> QED BY Zenon, <1>4, <2>1
  <1>7. ASSUME NEW c \in Caller, Hit(c) \/ BuildFailed(c) \/ Built(c) \/ Answer(c) PROVE UNCHANGED vars
    BY Zenon, <1>7 DEF Hit, BuildFailed, Built, Answer
  <1>8. ASSUME NEW c \in Caller, NEW s \in Scope, NEW limit \in 1..MaxRuntimes, Request(c, s, limit)
        PROVE  UNCHANGED vars
    BY Zenon, <1>8 DEF Request
  <1>9. CASE UNCHANGED entryVars
    BY Zenon, <1>9 DEF entryVars
  <1> QED BY Zenon, <1>1, <1>2, <1>3, <1>5, <1>6, <1>7, <1>8, <1>9 DEF EntryNext, Finish

(* Both invariants hold initially. *)
LEMMA EntryStart == EntryInit => ServiceInv /\ ManagerInv
  <1> SUFFICES ASSUME EntryInit PROVE ServiceInv /\ ManagerInv
    OBVIOUS
  <1>1. PICK e \in Entry, h \in Handle, s \in Scope :
        /\ registry = <<e>>
        /\ of = [x \in Entry |-> IdentityOf[s]]
        /\ active = [x \in Entry |-> x = e]
        /\ handle = [x \in Handle |-> IF x = h THEN e ELSE None]
        /\ holds = [c \in Caller |-> TRUE]
        /\ work = [i \in Identity |-> "none"]
        /\ stop = FALSE /\ done = FALSE /\ unseen = FALSE
        /\ worker = [pc |-> "check", snapshot |-> NoSnapshot, progressed |-> FALSE, cut |-> FALSE]
        /\ call = [c \in Caller |-> Idle]
        /\ cached = [x \in Scope |-> IF x = s THEN h ELSE None]
        /\ evicted = [x \in Scope |-> None]
        /\ lru = <<s>>
        /\ mutex = None
        /\ refs = [c \in Caller |-> {}]
        /\ mgr = [c \in Caller |-> NoRequest]
    BY Zenon DEF EntryInit
  <1>2. ServiceInv
    <2>1. /\ holds \in [Caller -> BOOLEAN] /\ call \in [Caller -> {Idle, NoThread}]
          /\ work \in [Identity -> {"none", "due", "waiting", "unmounted"}]
          /\ IdentityOf[s] \in Identity
      BY Zenon, <1>1, EntryAssumption
    <2> QED BY Zenon, <1>1, <2>1, FreshService
  <1>3. EntryTypeOK
    <2>1. NoRequest \in RequestType /\ lru \in Seq(Scope)
      BY <1>1 DEF RequestType
    <2> QED BY Zenon, <1>1, <2>1 DEF EntryTypeOK
  <1>4. \A c \in Caller : mgr[c].pc = "idle" /\ ToClose(c) = <<>> /\ call[c] = Idle /\ refs[c] = {}
    BY Zenon, <1>1 DEF NoRequest, ToClose
  <1>5. MutexInv /\ BuildInv
    BY Zenon, <1>1, <1>4, EntryAssumption DEF MutexInv, BuildInv
  <1>6. CacheInv
    <2>1. Len(lru) = 1 /\ lru[1] = s /\ Range(lru) = {s}
      BY <1>1 DEF Range
    <2>2. ListOK(lru, cached)
      BY <1>1, <2>1, EntryAssumption DEF ListOK, Once
    <2>3. RefsOK(cached, evicted, refs)
      BY Zenon, <1>1 DEF RefsOK
    <2> QED BY <2>1, <2>2, <2>3, EntryAssumption DEF CacheInv
  <1>7. \A c \in Caller : Range(ToClose(c)) = {} /\ Once(ToClose(c))
    BY <1>4 DEF Range, Once
  <1>8. \A c \in Caller : \A x : ~Dropping(c, x)
    BY <1>4 DEF Dropping, DetachCall, Idle
  <1>9. AttachedInv
    <2>1. \A x \in Handle : Usable(x) => x = h
      BY Zenon, <1>1, <1>4, EntryAssumption DEF Usable, Held
    <2>2. handle[h] # None
      BY Zenon, <1>1, ServiceAssumption
    <2> QED BY Zenon, <1>7, <1>8, <2>1, <2>2 DEF AttachedInv
  <1>10. CloseInv
    BY Zenon, <1>4, <1>7 DEF CloseInv
  <1> QED BY <1>2, <1>3, <1>5, <1>6, <1>9, <1>10 DEF ManagerInv


---------------------------------------------------------------------------
(* Counting, and the theorems. *)

FST == INSTANCE FiniteSetTheorems

(* The library counts as the model does. *)
LEMMA SameCount == \A S : Cardinality(S) = FST!Cardinality(S) /\ (IsFiniteSet(S) <=> FST!IsFiniteSet(S))
  BY Zenon DEF Cardinality, FST!Cardinality, IsFiniteSet, FST!IsFiniteSet

(* Counting the subsets of a finite set. *)
LEMMA SubsetCounts ==
    ASSUME NEW S, IsFiniteSet(S), NEW T \in SUBSET S
    PROVE  IsFiniteSet(T) /\ Cardinality(T) \in Nat /\ (Cardinality(T) = 0 <=> T = {})
  <1>1. FST!IsFiniteSet(T)
    BY Zenon, SameCount, FST!FS_Subset
  <1> QED BY Zenon, <1>1, SameCount, FST!FS_CardinalityType, FST!FS_EmptySet

(* Shares is zero exactly when no attachment shares the entry. *)
LEMMA SharesIs ==
    ASSUME TypeOK
    PROVE  SharesCounted
  <1> SUFFICES ASSUME NEW e \in Entry
               PROVE  (Shares(e) = 0 => ~Shared(e)) /\ (Shares(e) > 0 => Shared(e))
    BY Zenon DEF SharesCounted
  <1> DEFINE H == {h \in Handle : handle[h] = e}
             n == Cardinality(H)
             m == Cardinality(Snapshots(e))
  <1>1. IsFiniteSet(Handle) /\ H \in SUBSET Handle /\ IsFiniteSet(Caller) /\ Snapshots(e) \in SUBSET Caller
    BY Zenon, ServiceAssumption DEF Snapshots
  <1>2. n \in Nat /\ m \in Nat /\ (n = 0 <=> H = {}) /\ (m = 0 <=> Snapshots(e) = {})
    BY Zenon, <1>1, SubsetCounts
  <1>3. Shares(e) = (IF Registered(e) THEN 1 ELSE 0) + n + (IF e \in Range(worker.snapshot) THEN 1 ELSE 0) + m
    BY Zenon DEF Shares
  <1>4. Shared(e) <=> Registered(e) \/ H # {} \/ e \in Range(worker.snapshot) \/ Snapshots(e) # {}
    BY Zenon DEF Shared, Snapshots
  <1> HIDE DEF n, m, H
  <1> QED BY <1>2, <1>3, <1>4

(* The properties of the service follow from its invariant. *)
LEMMA ServiceImplies ==
    ASSUME ServiceInv
    PROVE  TypeOK /\ RegistryDistinct /\ ActiveIsRegistered /\ CutCallsDoNotComplete /\ ShutdownMeansStopped
  <1>1. TypeOK /\ RegistryDistinct /\ ActiveInv /\ CutInv /\ DoneInv
    BY Zenon DEF ServiceInv, Attachments
  <1>2. ActiveIsRegistered
    BY Zenon, <1>1, SharesIs DEF SharesCounted, ActiveInv, ActiveIsRegistered, Registered, Retaining
  <1>3. CutCallsDoNotComplete
    BY <1>1 DEF CutInv, CutCallsDoNotComplete
  <1>4. ShutdownMeansStopped
    BY Zenon, <1>1 DEF DoneInv, ShutdownMeansStopped
  <1> QED BY Zenon, <1>1, <1>2, <1>3, <1>4

(* The invariant holds of the service however its threads interleave. *)
THEOREM ServiceInductive == Spec => []ServiceInv
  <1>1. ServiceInv /\ [Next]_vars => ServiceInv'
    BY Zenon, ServiceStep, SharesIs DEF ServiceInv
  <1> QED BY <1>1, ServiceInit, PTL DEF Spec

(* Every variable keeps its type: calls carry the data their step needs. *)
THEOREM ServiceTypes == Spec => []TypeOK
  BY ServiceInductive, ServiceImplies, PTL

(* Identities are registered once, and within the limit (attach_runtime). *)
THEOREM RegistryStaysDistinct == Spec => []RegistryDistinct
  BY ServiceInductive, ServiceImplies, PTL

(* An attachment works exactly while it is registered, but for the last two    *)
(* steps of a detach (MemoryLearningAttachment::detach).                            *)
THEOREM ActivityIsRegistration == Spec => []ActiveIsRegistered
  BY ServiceInductive, ServiceImplies, PTL

(* A model call that a detach or a stop cut does not complete its job. *)
THEOREM CutCallsStop == Spec => []CutCallsDoNotComplete
  BY ServiceInductive, ServiceImplies, PTL

(* A shutdown that reports success found a worker past its last job. *)
THEOREM ShutdownStops == Spec => []ShutdownMeansStopped
  BY ServiceInductive, ServiceImplies, PTL

(* A stopping service neither admits an attachment nor hands one out. *)
THEOREM StopAdmitsNothing == Spec => NoAdmissionAfterStop
  <1>1. ServiceInv /\ [Next]_vars =>
          [stop => /\ Range(registry') \subseteq Range(registry)
                   /\ \A h \in Handle : handle[h] = None => handle'[h] = None]_vars
    BY Zenon, NothingAdmitted DEF Admits
  <1> QED BY <1>1, ServiceInductive, PTL DEF Spec, NoAdmissionAfterStop


(* Sequences without duplicates. *)
LEMMA ListCardinality ==
    ASSUME NEW S, NEW q \in Seq(S), \A i, k \in 1..Len(q) : q[i] = q[k] => i = k
    PROVE  IsFiniteSet(Range(q)) /\ Cardinality(Range(q)) = Len(q)
  <1>1. Range(q) = {q[i] : i \in 1..Len(q)} /\ DOMAIN q = 1..Len(q) /\ Len(q) \in Nat
    BY DEF Range
  <1>2. q \in [1..Len(q) -> Range(q)]
    BY <1>1
  <1>3. q \in FST!Injection(1..Len(q), Range(q)) /\ q \in FST!Surjection(1..Len(q), Range(q))
    BY Zenon, <1>1, <1>2 DEF FST!Injection, FST!IsInjective, FST!Surjection
  <1>4. FST!ExistsBijection(1..Len(q), Range(q))
    BY Zenon, <1>3 DEF FST!ExistsBijection, FST!Bijection
  <1>5. FST!IsFiniteSet(Range(q)) /\ FST!Cardinality(Range(q)) = Len(q)
    BY Zenon, <1>1, <1>4, FST!FS_CountingElements, FST!FS_NatBijection
  <1> QED BY Zenon, <1>5, SameCount

(* The list counts the cached scopes. *)
LEMMA CacheIs ==
    ASSUME EntryTypeOK, CacheInv
    PROVE  CacheCounted
  <1>1. lru \in Seq(Scope) /\ Once(lru) /\ Range(lru) = Cached
    BY Zenon DEF EntryTypeOK, CacheInv, ListOK, Cached
  <1>2. Cardinality(Range(lru)) = Len(lru)
    BY Zenon, <1>1, ListCardinality DEF Once
  <1>3. ASSUME NEW n \in 0..Len(lru), NEW P \in SUBSET (1..n) PROVE Cardinality(P) \in Nat
    <2>1. IsFiniteSet(1..n)
      BY FST!FS_Interval, SameCount
    <2> QED BY Zenon, <2>1, SubsetCounts
  <1> QED BY Zenon, <1>1, <1>2, <1>3 DEF CacheCounted

EntryInv == ServiceInv /\ ManagerInv

(* The properties of the manager follow from its invariant. *)
LEMMA ManagerImplies ==
    ASSUME ManagerInv
    PROVE  NoSplitScope /\ ClosedIsUnused /\ CacheIsListed
  <1>0. EntryTypeOK /\ CacheInv /\ CloseInv /\ RefsOK(cached, evicted, refs)
    BY Zenon DEF ManagerInv, CacheInv
  <1>1. ASSUME NEW h \in Handle, Held(h) PROVE Cardinality(ScopesOf(h)) = 1
    <2>1. PICK s \in Scope : cached[s] = h \/ evicted[s] = h
      BY Zenon, <1>0, <1>1 DEF Held, RefsOK
    <2>2. ASSUME NEW t \in Scope, cached[t] = h \/ evicted[t] = h PROVE t = s
      BY Zenon, <1>0, <2>1, <2>2, EntryAssumption DEF RefsOK
    <2>3. ScopesOf(h) = {s}
      BY Zenon, <2>1, <2>2 DEF ScopesOf
    <2> QED BY Zenon, <2>3, FST!FS_Singleton, SameCount
  <1>2. NoSplitScope
    BY Zenon, <1>0, <1>1 DEF NoSplitScope, RefsOK, Held
  <1>3. CacheIsListed
    <2>1. lru \in Seq(Scope) /\ Range(lru) = Cached /\ Len(lru) <= MaxRuntimes
      BY Zenon, <1>0 DEF EntryTypeOK, CacheInv, ListOK, Cached
    <2> QED BY Zenon, <1>0, <2>1, CacheIs DEF CacheCounted, CacheIsListed
  <1>4. ASSUME NEW c \in Caller, mgr[c].pc \in {"build", "close"}, NEW k \in 1..Len(mgr[c].close)
        PROVE  /\ mgr[c].close = ToClose(c) /\ mgr[c].close[k] \in Range(ToClose(c))
               /\ ~Usable(mgr[c].close[k])
    <2>1. mgr[c].close = ToClose(c)
      BY Zenon, <1>4 DEF ToClose
    <2>2. mgr[c].close \in Seq(Handle)
      BY Zenon, <1>0, <2>1, ToCloseType
    <2>3. mgr[c].close[k] \in Range(ToClose(c))
      <3>1. DOMAIN mgr[c].close = 1..Len(mgr[c].close)
        BY <2>2
      <3> QED BY Zenon, <2>1, <3>1 DEF Range
    <2> QED BY Zenon, <1>0, <2>1, <2>3 DEF CloseInv
  <1>5. ClosedIsUnused
    <2> SUFFICES ASSUME NEW c \in Caller, mgr[c].pc \in {"build", "close"}, NEW k \in 1..Len(mgr[c].close),
                        NEW d \in Caller, mgr[d].pc \in {"build", "close"}, NEW m \in 1..Len(mgr[d].close),
                        mgr[c].close[k] = mgr[d].close[m]
                 PROVE  c = d /\ k = m
      BY Zenon, <1>4 DEF ClosedIsUnused
    <2>1. c = d
      BY <1>0, <1>4 DEF CloseInv
    <2> QED BY <1>0, <1>4, <2>1 DEF CloseInv, Once
  <1> QED BY Zenon, <1>2, <1>3, <1>5

(* However requests for runtimes, the closing of evicted ones and the service *)
(* interleave, both invariants hold.                                          *)
THEOREM EntryInductive == EntrySpec => []EntryInv
  <1>1. EntryInit => EntryInv
    BY Zenon, EntryStart DEF EntryInv
  <1>2. EntryInv /\ [EntryNext]_entryVars => EntryInv'
    <2> SUFFICES ASSUME EntryInv, [EntryNext]_entryVars PROVE EntryInv'
      BY Zenon
    <2>1. TypeOK
      BY Zenon DEF EntryInv, ServiceInv
    <2>2. [Next]_vars
      BY Zenon, EntryIsService DEF EntryInv
    <2>3. ServiceInv'
      BY Zenon, <2>1, <2>2, ServiceStep, SharesIs DEF EntryInv
    <2>4. ManagerInv'
      <3>1. CacheCounted
        BY Zenon, CacheIs DEF EntryInv, ManagerInv
      <3> QED BY Zenon, <2>1, <3>1, ManagerStep DEF EntryInv
    <2> QED BY Zenon, <2>3, <2>4 DEF EntryInv
  <1> QED BY <1>1, <1>2, PTL DEF EntrySpec

(* Every variable of the manager keeps its type. *)
THEOREM EntryTypes == EntrySpec => []EntryTypeOK
  <1>1. EntryInv => EntryTypeOK
    BY Zenon DEF EntryInv, ManagerInv
  <1> QED BY <1>1, EntryInductive, PTL

(* A scope is never served by two runtimes at once (runtime_for_scope). *)
THEOREM ScopesAreNotSplit == EntrySpec => []NoSplitScope
  <1>1. EntryInv => NoSplitScope
    BY Zenon, ManagerImplies DEF EntryInv
  <1> QED BY <1>1, EntryInductive, PTL

(* A runtime that is closed is used by nobody, and is closed once             *)
(* (close_entry_runtimes).                                                    *)
THEOREM ClosedRuntimesAreUnused == EntrySpec => []ClosedIsUnused
  <1>1. EntryInv => ClosedIsUnused
    BY Zenon, ManagerImplies DEF EntryInv
  <1> QED BY <1>1, EntryInductive, PTL

(* The cache stays within its limit, and the list by which runtimes are       *)
(* evicted names each cached scope once (evict_to_limit, touch).              *)
THEOREM CacheStaysListed == EntrySpec => []CacheIsListed
  <1>1. EntryInv => CacheIsListed
    BY Zenon, ManagerImplies DEF EntryInv
  <1> QED BY <1>1, EntryInductive, PTL

(* The manager uses the service only as the service may be used: each of its  *)
(* steps is a step of LearningService or leaves the service alone.            *)
THEOREM ManagerIsAClient == EntrySpec => [][Next]_vars
  <1>1. EntryInv /\ [EntryNext]_entryVars => [Next]_vars
    BY Zenon, EntryIsService DEF EntryInv
  <1> QED BY <1>1, EntryInductive, PTL DEF EntrySpec

(* So the attachments of its runtimes work exactly while they are registered. *)
THEOREM EntryActivity == EntrySpec => []ActiveIsRegistered
  <1>1. EntryInv => ActiveIsRegistered
    BY ServiceImplies DEF EntryInv
  <1> QED BY <1>1, EntryInductive, PTL

=============================================================================
