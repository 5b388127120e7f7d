--------------------------- MODULE StepReuseProofs ---------------------------
(***************************************************************************)
(* Proofs about StepReuse, for every set of contracts, scopes and shapes   *)
(* and every size of the cache: the types, that no stale execution is ever *)
(* run, that the cache keeps under an identity only what was compiled for  *)
(* it, that it is the working set, and that what fits is compiled once.    *)
(***************************************************************************)
EXTENDS StepReuse, FiniteSetTheorems, TLAPS

\* What the executor holds: a kernel of its lifecycle's contract, while it is in
\* a step of its scopes too, and once it looked up, a handle that is fresh or the
\* identity's own.
StepIsHonest ==
  /\ kernel # NoKernel => kernel.contract = lifecycle.contract
  /\ pc # "idle" => kernel # NoKernel /\ kernel.scope = lifecycle.scope
  /\ pc = "compile" => handle \in {Uncompiled, Identity}
  /\ pc = "prepare" => handle = Uncompiled
  /\ pc = "dispatch" => handle = Identity

IInv == TypeOK /\ CacheHonest /\ StepIsHonest

\* A kernel and a shape name an identity.
LEMMA IdentityType ==
  ASSUME kernel \in Lifecycles, call \in Calls
  PROVE  Identity \in Identities
  BY DEF Identity, Identities, Lifecycles, Calls

\* The kernel a step runs with is one of the scopes its lifecycle has.
LEMMA FreshKernel ==
  ASSUME lifecycle \in Lifecycles, kernel \in Lifecycles \cup {NoKernel},
         StepIsHonest, NEW k, k = IF Stale THEN lifecycle ELSE kernel
  PROVE  /\ k \in Lifecycles /\ k # NoKernel
         /\ k.scope = lifecycle.scope /\ k.contract = lifecycle.contract
  BY SentinelAssumption DEF Stale, StepIsHonest

\* The cache a put leaves is made of the entries it had and the handle put.
LEMMA PutType ==
  ASSUME TypeOK, Identity \in Identities, handle \in Identities, Put
  PROVE  /\ entries' \in [Identities -> Identities \cup {Uncompiled}]
         /\ place' \in [Identities -> Nat]
         /\ touched' \in [Identities -> Nat]
         /\ clock' \in Nat
         /\ \A i \in Identities :
              place'[i] # 0 => i = Identity \/ place[i] # 0
<1> DEFINE places == [place EXCEPT ![Identity] = clock + 1]
<1>1. places \in [Identities -> Nat]
  BY DEF TypeOK
<1>2. place' = [i \in Identities |-> IF i \in Kept(places) THEN places[i] ELSE 0]
  BY DEF Put
<1>3. place' \in [Identities -> Nat]
  BY <1>1, <1>2
<1>4. entries' \in [Identities -> Identities \cup {Uncompiled}]
  BY DEF Put, TypeOK
<1>5. touched' \in [Identities -> Nat] /\ clock' \in Nat
  BY DEF Put, MoveToEnd, TypeOK
<1>6. ASSUME NEW i \in Identities, place'[i] # 0
      PROVE  i = Identity \/ place[i] # 0
  <2>1. places[i] # 0
    BY <1>1, <1>2, <1>6
  <2> QED BY <2>1 DEF TypeOK
<1> QED BY <1>3, <1>4, <1>5, <1>6

LEMMA InitIInv == Init => IInv
<1> SUFFICES ASSUME Init PROVE IInv
  OBVIOUS
<1>1. TypeOK
  BY ReuseAssumption DEF Init, TypeOK, Executed
<1>2. CacheHonest /\ StepIsHonest
  BY DEF Init, CacheHonest, Cached, StepIsHonest
<1> QED BY <1>1, <1>2 DEF IInv

LEMMA StepKeeps ==
  ASSUME IInv, NEW shape \in Shapes, NEW cacheable \in BOOLEAN,
         Step(shape, cacheable)
  PROVE  IInv'
<1> USE DEF IInv
<1>1. /\ kernel' \in Lifecycles /\ kernel' # NoKernel
      /\ kernel'.scope = lifecycle.scope /\ kernel'.contract = lifecycle.contract
  BY FreshKernel DEF Step, TypeOK
<1>2. TypeOK'
  BY <1>1, ReuseAssumption DEF Step, TypeOK, cache, counts, Calls
<1>3. CacheHonest'
  BY DEF Step, CacheHonest, Cached, cache
<1>4. StepIsHonest'
  BY <1>1 DEF Step, StepIsHonest
<1> QED BY <1>2, <1>3, <1>4

LEMMA LookUpKeeps ==
  ASSUME IInv, LookUp
  PROVE  IInv'
<1> USE DEF IInv
<1>1. kernel \in Lifecycles /\ Identity \in Identities /\ Identity' = Identity
  BY IdentityType DEF LookUp, TypeOK, Identity
<1>2. CASE call.cacheable /\ place[Identity] # 0
  <2>1. handle' = entries[Identity] /\ entries[Identity] = Identity
    BY <1>1, <1>2 DEF LookUp, CacheHonest, Cached
  <2>2. TypeOK'
    BY <1>1, <1>2, <2>1 DEF LookUp, MoveToEnd, TypeOK, counts
  <2>3. CacheHonest'
    BY <1>1, <1>2 DEF LookUp, MoveToEnd, CacheHonest, Cached, TypeOK
  <2>4. StepIsHonest'
    BY <1>1, <2>1 DEF LookUp, StepIsHonest
  <2> QED BY <2>2, <2>3, <2>4
<1>3. CASE ~(call.cacheable /\ place[Identity] # 0)
  <2>1. TypeOK' /\ CacheHonest'
    BY <1>3 DEF LookUp, TypeOK, CacheHonest, Cached, counts
  <2>2. StepIsHonest'
    BY <1>1, <1>3 DEF LookUp, StepIsHonest
  <2> QED BY <2>1, <2>2
<1> QED BY <1>2, <1>3

LEMMA CompileKeeps ==
  ASSUME IInv, Compile
  PROVE  IInv'
<1> USE DEF IInv
<1>1. kernel \in Lifecycles /\ Identity \in Identities /\ Identity' = Identity
  BY IdentityType DEF Compile, TypeOK, Identity
<1>2. handle' = Identity
  BY DEF Compile, StepIsHonest
<1>3. compiles' \in [Identities -> Nat]
  BY <1>1 DEF Compile, TypeOK
<1>4. TypeOK'
  BY <1>1, <1>2, <1>3 DEF Compile, TypeOK, cache
<1>5. CacheHonest'
  BY DEF Compile, CacheHonest, Cached, cache
<1>6. StepIsHonest'
  BY <1>1, <1>2 DEF Compile, StepIsHonest
<1> QED BY <1>4, <1>5, <1>6

LEMMA DispatchKeeps ==
  ASSUME IInv, Dispatch
  PROVE  IInv' /\ RightExecution'
<1> USE DEF IInv
<1>1. /\ kernel \in Lifecycles /\ kernel.scope = lifecycle.scope
      /\ kernel.contract = lifecycle.contract /\ Identity \in Identities /\ handle = Identity
  BY IdentityType DEF Dispatch, StepIsHonest, TypeOK
<1>2. executed' = { [ran |-> Identity, lifecycle |-> lifecycle, shape |-> call.shape] }
  BY <1>1 DEF Dispatch
<1>3. executed' \in SUBSET Executed
  BY <1>1, <1>2 DEF Executed, TypeOK, Calls
<1>4. RightExecution'
  BY <1>1, <1>2 DEF RightExecution, Identity
<1>5. CASE call.cacheable
  <2>1. Put
    BY <1>5 DEF Dispatch
  <2>2. TypeOK'
    BY <1>1, <1>3, <2>1, PutType DEF Dispatch, TypeOK, counts
  <2>3. ASSUME NEW i \in Cached' PROVE entries'[i] = i
    <3>1. i \in Identities /\ (i = Identity \/ place[i] # 0)
      BY <1>1, <2>1, PutType DEF Cached
    <3>2. entries' = [entries EXCEPT ![Identity] = Identity]
      BY <1>1, <2>1 DEF Put
    <3> QED BY <3>1, <3>2 DEF CacheHonest, Cached, TypeOK
  <2> QED BY <1>4, <2>2, <2>3 DEF Dispatch, CacheHonest, StepIsHonest
<1>6. CASE ~call.cacheable
  <2>1. TypeOK'
    BY <1>3, <1>6 DEF Dispatch, TypeOK, cache, counts
  <2>2. CacheHonest' /\ StepIsHonest'
    BY <1>6 DEF Dispatch, CacheHonest, Cached, cache, StepIsHonest
  <2> QED BY <1>4, <2>1, <2>2
<1> QED BY <1>5, <1>6

LEMMA RaiseKeeps ==
  ASSUME IInv, Raise
  PROVE  IInv'
<1> USE DEF IInv
<1>1. kernel \in Lifecycles /\ Identity \in Identities
  BY IdentityType DEF Raise, TypeOK
<1>2. failures' \in [Identities -> Nat]
  BY <1>1 DEF Raise, TypeOK
<1>3. TypeOK'
  BY <1>2 DEF Raise, TypeOK, cache
<1>4. CacheHonest' /\ StepIsHonest'
  BY DEF Raise, CacheHonest, Cached, cache, StepIsHonest
<1> QED BY <1>3, <1>4

LEMMA RestoreKeeps ==
  ASSUME IInv, NEW checkpoint \in Lifecycles, Restore(checkpoint)
  PROVE  IInv'
<1> USE DEF IInv
<1>1. lifecycle' \in Lifecycles /\ lifecycle'.contract = lifecycle.contract
  BY DEF Restore, TypeOK, Lifecycles
<1>2. TypeOK' /\ CacheHonest'
  BY <1>1 DEF Restore, TypeOK, CacheHonest, Cached, cache, counts
<1>3. StepIsHonest'
  BY <1>1 DEF Restore, StepIsHonest
<1> QED BY <1>2, <1>3

LEMMA StutterKeeps ==
  ASSUME IInv, UNCHANGED vars
  PROVE  IInv'
  BY DEF IInv, vars, TypeOK, CacheHonest, Cached, cache, counts, StepIsHonest, Identity

LEMMA NextIInv == IInv /\ [Next]_vars => IInv'
  BY StepKeeps, LookUpKeeps, CompileKeeps, DispatchKeeps, RaiseKeeps,
     RestoreKeeps, StutterKeeps
  DEF Next

\* The executor, its handle and the cache keep their types, and whoever is in a
\* step holds a kernel (JaxLoopExecutor.__call__ builds one before it executes).
THEOREM TypeCorrect == Spec => []TypeOK
<1>1. IInv => TypeOK
  BY DEF IInv
<1> QED BY InitIInv, NextIInv, <1>1, PTL DEF Spec

\* Whatever hits, evictions, failures and restores came before, what the cache
\* holds under a digest was compiled for that digest.
THEOREM CacheStaysHonest == Spec => []CacheHonest
<1>1. IInv => CacheHonest
  BY DEF IInv
<1> QED BY InitIInv, NextIInv, <1>1, PTL DEF Spec

\* No step runs an execution compiled for another contract, other scopes or
\* another batch shape than its own, for every size of the cache.
THEOREM NeverStale == Spec => []RightExecution
<1>1. Init => RightExecution
  BY DEF Init, RightExecution
<1>2. IInv /\ RightExecution /\ [Next]_vars => RightExecution'
  <2> SUFFICES ASSUME IInv, RightExecution, [Next]_vars PROVE RightExecution'
    OBVIOUS
  <2>1. ASSUME NEW shape \in Shapes, NEW cacheable \in BOOLEAN,
               Step(shape, cacheable)
        PROVE  RightExecution'
    BY <2>1 DEF Step, RightExecution
  <2>2. CASE LookUp
    BY <2>2 DEF LookUp, RightExecution
  <2>3. CASE Compile
    BY <2>3 DEF Compile, RightExecution
  <2>4. CASE Dispatch
    BY <2>4, DispatchKeeps
  <2>5. CASE Raise
    BY <2>5 DEF Raise, RightExecution
  <2>6. ASSUME NEW checkpoint \in Lifecycles, Restore(checkpoint)
        PROVE  RightExecution'
    BY <2>6 DEF Restore, RightExecution
  <2>7. CASE UNCHANGED vars
    BY <2>7 DEF vars, RightExecution
  <2> QED BY <2>1, <2>2, <2>3, <2>4, <2>5, <2>6, <2>7 DEF Next
<1> QED BY InitIInv, NextIInv, <1>1, <1>2, PTL DEF Spec
-----------------------------------------------------------------------------
(***************************************************************************)
(* The working set.  "touched" is a clock reading per identity; an         *)
(* identity is recent when fewer than MaxEntries were touched after it.    *)
(***************************************************************************)
Above(t, i) == { j \in Identities : t[j] > t[i] }

Recent(t) ==
  { i \in Identities : t[i] # 0 /\ Cardinality(Above(t, i)) < MaxEntries }

\* There are finitely many identities.
LEMMA IdentitiesFinite == IsFiniteSet(Identities)
<1> DEFINE triples == (Contracts \X Scopes) \X Shapes
           named == [x \in triples |->
             [contract |-> x[1][1], scope |-> x[1][2], shape |-> x[2]]]
<1>1. IsFiniteSet(triples)
  BY ReuseAssumption, FS_Product
<1>2. named \in [triples -> Identities]
  BY DEF Identities
<1>3. ASSUME NEW i \in Identities PROVE \E x \in triples : named[x] = i
  <2>1. /\ i.contract \in Contracts /\ i.scope \in Scopes /\ i.shape \in Shapes
        /\ i = [contract |-> i.contract, scope |-> i.scope, shape |-> i.shape]
    BY DEF Identities
  <2>2. <<<<i.contract, i.scope>>, i.shape>> \in triples
    BY <2>1
  <2> QED BY <2>1, <2>2
<1>4. named \in Surjection(triples, Identities)
  BY <1>2, <1>3 DEF Surjection
<1> QED BY <1>1, <1>4, FS_Surjection

\* Sets of identities have sizes, and a part is not larger than the whole.
LEMMA Sizes ==
  ASSUME NEW S \in SUBSET Identities, NEW T \in SUBSET S
  PROVE  /\ Cardinality(S) \in Nat /\ Cardinality(T) \in Nat
         /\ Cardinality(T) <= Cardinality(S)
         /\ \A i \in S \ T : Cardinality(T) < Cardinality(S)
<1>1. IsFiniteSet(S) /\ IsFiniteSet(T)
  BY IdentitiesFinite, FS_Subset
<1>2. Cardinality(T) <= Cardinality(S) /\ (Cardinality(S) = Cardinality(T) => S = T)
  BY <1>1, FS_Subset
<1>3. Cardinality(S) \in Nat /\ Cardinality(T) \in Nat
  BY <1>1, FS_CardinalityType
<1> QED BY <1>2, <1>3

\* Who was touched after a recent identity is recent too.
LEMMA AboveRecent ==
  ASSUME NEW t \in [Identities -> Nat], NEW i \in Recent(t), NEW j \in Above(t, i)
  PROVE  j \in Recent(t)
<1>1. i \in Identities /\ j \in Identities /\ t[j] > t[i] /\ t[i] \in Nat
  BY DEF Recent, Above
<1>2. Above(t, j) \subseteq Above(t, i) /\ Above(t, i) \in SUBSET Identities
  BY <1>1 DEF Above
<1>3. /\ Cardinality(Above(t, j)) <= Cardinality(Above(t, i))
      /\ Cardinality(Above(t, j)) \in Nat /\ Cardinality(Above(t, i)) \in Nat
  BY <1>2, Sizes
<1> QED BY <1>1, <1>3, ReuseAssumption DEF Recent

\* u is t after identity a was touched at "now".
Touched(t, u, a, now) ==
  /\ t \in [Identities -> Nat] /\ u \in [Identities -> Nat] /\ now \in Nat
  /\ a \in Identities /\ u[a] = now
  /\ \A j \in Identities : t[j] < now /\ (j # a => u[j] = t[j])

\* The set of those above another identity only gains the one just touched.
LEMMA AboveAfterTouch ==
  \A t, u, a, now : Touched(t, u, a, now) =>
    /\ Above(u, a) = {}
    /\ \A i \in Identities \ {a} : Above(u, i) = Above(t, i) \cup {a}
BY DEF Touched, Above

\* Clock readings differ, and none is ahead of the clock.
Clocked ==
  /\ \A i \in Identities : touched[i] <= clock
  /\ \A i, j \in Identities : touched[i] = touched[j] /\ touched[i] # 0 => i = j

WInv == Clocked /\ CacheIsWorkingSet

LEMMA RecentFacts ==
  /\ MostRecent = Recent(touched)
  /\ \A places : Kept(places) = Recent(places)
BY DEF MostRecent, Kept, Recent, Above

\* A hit leaves the same identities recent: the one that was hit is among them.
LEMMA HitKeepsRecent ==
  ASSUME NEW t, NEW u, NEW a, NEW now, Touched(t, u, a, now), a \in Recent(t),
         \A j, k \in Identities : t[j] = t[k] /\ t[j] # 0 => j = k
  PROVE  Recent(u) = Recent(t)
<1>1. /\ t \in [Identities -> Nat] /\ a \in Identities
      /\ u[a] # 0 /\ \A i \in Identities \ {a} : u[i] = t[i]
  BY DEF Touched
<1>2. a \in Recent(u)
  <2>1. Above(u, a) = {}
    BY AboveAfterTouch
  <2>2. Cardinality({}) = 0 /\ 0 < MaxEntries
    BY FS_EmptySet, ReuseAssumption
  <2> QED BY <1>1, <2>1, <2>2 DEF Recent
<1>3. ASSUME NEW i \in Identities, i # a
      PROVE  i \in Recent(u) <=> i \in Recent(t)
  <2> DEFINE before == Above(t, i)
             after == Above(u, i)
  <2>1. u[i] = t[i] /\ after = before \cup {a}
    BY <1>1, <1>3, AboveAfterTouch
  <2>2. /\ before \in SUBSET Identities /\ after \in SUBSET Identities
        /\ Cardinality(before) \in Nat /\ Cardinality(after) \in Nat
        /\ Cardinality(before) <= Cardinality(after)
    <3>1. before \in SUBSET after /\ after \in SUBSET Identities
      BY <1>1, <2>1 DEF Above
    <3> HIDE DEF before, after
    <3> QED BY <3>1, Sizes
  <2>3. i \in Recent(u) => i \in Recent(t)
    BY <2>1, <2>2, ReuseAssumption DEF Recent
  <2>4. ASSUME i \in Recent(t) PROVE Cardinality(after) < MaxEntries
    <3>1. t[i] # 0 /\ Cardinality(before) < MaxEntries /\ t[i] # t[a]
      BY <1>3, <2>4 DEF Recent
    <3>2. CASE a \in before
      <4>1. after = before
        BY <2>1, <3>2
      <4> QED BY <3>1, <4>1
    <3>3. CASE a \notin before
      <4>1. t[a] < t[i]
        BY <1>1, <3>1, <3>3 DEF Above
      <4>2. i \in Above(t, a) \ before /\ before \in SUBSET Above(t, a)
        BY <1>1, <4>1 DEF Above
      <4>3. /\ Cardinality(before) < Cardinality(Above(t, a))
            /\ Cardinality(Above(t, a)) \in Nat
        <5>1. Above(t, a) \in SUBSET Identities
          BY DEF Above
        <5> HIDE DEF before
        <5> QED BY <4>2, <5>1, Sizes
      <4>4. Cardinality(Above(t, a)) < MaxEntries
        BY DEF Recent
      <4>5. Cardinality(after) = Cardinality(before) + 1
        <5>1. IsFiniteSet(before)
          BY <2>2, IdentitiesFinite, FS_Subset
        <5> HIDE DEF before
        <5> QED BY <2>1, <3>3, <5>1, FS_AddElement
      <4> HIDE DEF before, after
      <4> QED BY <2>2, <4>3, <4>4, <4>5, ReuseAssumption
    <3> QED BY <3>2, <3>3
  <2> QED BY <2>1, <2>3, <2>4 DEF Recent
<1> QED BY <1>1, <1>2, <1>3 DEF Recent

\* After a put the cache is the working set again: what popitem leaves of the
\* old entries and the new one is exactly what is recent now.
LEMMA PutKeepsWorkingSet ==
  ASSUME TypeOK, WInv, Identity \in Identities, Put
  PROVE  CacheIsWorkingSet'
<1> DEFINE a == Identity
           u == [touched EXCEPT ![a] = clock + 1]
           places == [place EXCEPT ![a] = clock + 1]
<1>1. /\ place \in [Identities -> Nat] /\ touched \in [Identities -> Nat]
      /\ clock + 1 \in Nat /\ clock + 1 # 0 /\ a \in Identities
      /\ Touched(touched, u, a, clock + 1)
      /\ places[a] = clock + 1 /\ \A j \in Identities \ {a} : places[j] = place[j]
  BY DEF TypeOK, WInv, Clocked, Touched
<1>2. /\ touched' = u
      /\ place' = [i \in Identities |-> IF i \in Recent(places) THEN places[i] ELSE 0]
  BY RecentFacts DEF Put, MoveToEnd
<1> HIDE DEF a, u, places
<1>3. \A i \in Identities : /\ place[i] # 0 <=> i \in Recent(touched)
                            /\ place[i] # 0 => place[i] = touched[i]
  BY RecentFacts DEF WInv, CacheIsWorkingSet, Cached
<1>4. a \in Recent(places) /\ a \in Recent(u)
  <2>1. Above(places, a) = {} /\ Above(u, a) = {}
    <3>1. \A j \in Identities : place[j] <= clock + 1
      BY <1>1, <1>3 DEF Touched
    <3> QED BY <1>1, <3>1, AboveAfterTouch DEF Above
  <2>2. Cardinality({}) = 0 /\ 0 < MaxEntries
    BY FS_EmptySet, ReuseAssumption
  <2> QED BY <1>1, <2>1, <2>2 DEF Recent, Touched
<1>5. ASSUME NEW i \in Identities, i # a
      PROVE  /\ i \in Recent(places) <=> i \in Recent(u)
             /\ i \in Recent(places) => places[i] = u[i]
  <2> DEFINE before == Above(touched, i)
             after == Above(u, i)
             behind == Above(places, i)
  <2>1. u[i] = touched[i] /\ after = before \cup {a} /\ places[i] = place[i]
    BY <1>1, <1>5, AboveAfterTouch DEF Touched
  <2>2. /\ Cardinality(before) \in Nat /\ Cardinality(after) \in Nat
        /\ Cardinality(before) <= Cardinality(after)
    <3>1. before \in SUBSET after /\ after \in SUBSET Identities
      BY <1>1, <2>1 DEF Above
    <3> HIDE DEF before, after
    <3> QED BY <3>1, Sizes
  <2>3. CASE i \in Recent(touched)
    <3>1. place[i] = touched[i] /\ touched[i] # 0
      BY <1>3, <2>3
    <3>2. \A j \in Identities : place[j] > place[i] <=> touched[j] > touched[i]
      <4> SUFFICES ASSUME NEW j \in Identities
                   PROVE  place[j] > place[i] <=> touched[j] > touched[i]
        OBVIOUS
      <4>1. ASSUME touched[j] > touched[i] PROVE place[j] = touched[j]
        <5>1. j \in Recent(touched)
          BY <1>1, <2>3, <4>1, AboveRecent DEF Above
        <5> QED BY <1>3, <5>1
      <4>2. ASSUME place[j] > place[i] PROVE place[j] = touched[j]
        BY <1>1, <1>3, <4>2
      <4> QED BY <3>1, <4>1, <4>2
    <3>3. behind = after
      <4>1. clock + 1 > place[i]
        BY <1>1, <3>1 DEF Touched
      <4>2. \A j \in Identities : places[j] > places[i] <=> j \in before \cup {a}
        BY <1>1, <2>1, <3>2, <4>1 DEF Above
      <4> QED BY <2>1, <4>2 DEF Above
    <3>4. i \in Recent(places) <=> Cardinality(behind) < MaxEntries
      BY <2>1, <3>1 DEF Recent
    <3>5. i \in Recent(u) <=> Cardinality(after) < MaxEntries
      BY <2>1, <3>1 DEF Recent
    <3> QED BY <2>1, <3>1, <3>3, <3>4, <3>5
  <2>4. CASE i \notin Recent(touched)
    <3>1. i \notin Recent(places)
      BY <1>3, <2>1, <2>4 DEF Recent
    <3>2. i \notin Recent(u)
      BY <2>1, <2>2, <2>4, ReuseAssumption DEF Recent
    <3> QED BY <3>1, <3>2
  <2> QED BY <2>3, <2>4
<1>6. Recent(places) = Recent(u) /\ Recent(places) \subseteq Identities
  BY <1>4, <1>5 DEF Recent
<1>7. \A i \in Recent(places) : places[i] # 0 /\ places[i] = u[i]
  <2>1. places[a] = clock + 1 /\ u[a] = clock + 1
    BY <1>1 DEF Touched
  <2>2. \A i \in Recent(places) : places[i] # 0
    BY DEF Recent
  <2> QED BY <1>5, <1>6, <2>1, <2>2
<1>8. Cached' = Recent(places) /\ \A i \in Cached' : place'[i] = touched'[i]
  BY <1>2, <1>6, <1>7 DEF Cached
<1>9. MostRecent' = Recent(touched')
  BY DEF MostRecent, Recent, Above
<1> QED BY <1>2, <1>6, <1>8, <1>9 DEF CacheIsWorkingSet

LEMMA WInvInit == Init => WInv
<1> SUFFICES ASSUME Init PROVE WInv
  OBVIOUS
<1>1. Recent(touched) = {} /\ Cached = {}
  BY DEF Init, Recent, Cached
<1> QED BY <1>1, RecentFacts DEF Init, WInv, Clocked, CacheIsWorkingSet, Cached

\* A step that leaves the cache alone leaves it the working set.
LEMMA CacheAlone == WInv /\ UNCHANGED cache => WInv'
BY DEF WInv, Clocked, CacheIsWorkingSet, Cached, MostRecent, cache

LEMMA LookUpKeepsWorkingSet ==
  ASSUME IInv, WInv, LookUp
  PROVE  WInv'
<1>1. Identity \in Identities /\ TypeOK
  BY IdentityType DEF LookUp, IInv, TypeOK
<1>2. CASE call.cacheable /\ place[Identity] # 0
  <2> DEFINE a == Identity
  <2>1. /\ touched' = [touched EXCEPT ![a] = clock + 1]
        /\ place' = [place EXCEPT ![a] = clock + 1] /\ clock' = clock + 1
    BY <1>2 DEF LookUp, MoveToEnd
  <2>2. Touched(touched, touched', a, clock + 1) /\ Clocked'
    BY <1>1, <2>1 DEF TypeOK, WInv, Clocked, Touched
  <2>3. Recent(touched) = Cached /\ a \in Recent(touched)
    BY <1>1, <1>2, RecentFacts DEF WInv, CacheIsWorkingSet, Cached
  <2>4. \A j, k \in Identities : touched[j] = touched[k] /\ touched[j] # 0 => j = k
    BY DEF WInv, Clocked
  <2> HIDE DEF a
  <2>5. Recent(touched') = Recent(touched)
    BY <2>2, <2>3, <2>4, HitKeepsRecent
  <2>6. MostRecent' = Recent(touched')
    BY DEF MostRecent, Recent, Above
  <2>7. Cached' = Cached
    BY <1>1, <2>1, <2>3 DEF Cached, TypeOK
  <2>8. \A i \in Cached' : place'[i] = touched'[i]
    BY <1>1, <2>1, <2>7 DEF WInv, CacheIsWorkingSet, Cached, TypeOK
  <2> QED BY <2>2, <2>3, <2>5, <2>6, <2>7, <2>8 DEF WInv, CacheIsWorkingSet
<1>3. CASE ~(call.cacheable /\ place[Identity] # 0)
  BY <1>3, CacheAlone DEF LookUp, cache
<1> QED BY <1>2, <1>3

LEMMA DispatchKeepsWorkingSet ==
  ASSUME IInv, WInv, Dispatch
  PROVE  WInv'
<1>1. CASE call.cacheable
  <2>1. Identity \in Identities /\ TypeOK /\ Put
    BY <1>1, IdentityType DEF Dispatch, IInv, TypeOK
  <2>2. Clocked'
    BY <2>1 DEF Put, MoveToEnd, WInv, Clocked, TypeOK
  <2> QED BY <2>1, <2>2, PutKeepsWorkingSet DEF WInv
<1>2. CASE ~call.cacheable
  BY <1>2, CacheAlone DEF Dispatch
<1> QED BY <1>1, <1>2

LEMMA NextWInv == IInv /\ WInv /\ [Next]_vars => WInv'
<1> SUFFICES ASSUME IInv, WInv, [Next]_vars PROVE WInv'
  OBVIOUS
<1>1. ASSUME NEW shape \in Shapes, NEW cacheable \in BOOLEAN, Step(shape, cacheable)
      PROVE  WInv'
  BY <1>1, CacheAlone DEF Step
<1>2. CASE Compile \/ Raise \/ UNCHANGED vars
  BY <1>2, CacheAlone DEF Compile, Raise, vars
<1>3. ASSUME NEW checkpoint \in Lifecycles, Restore(checkpoint)
      PROVE  WInv'
  BY <1>3, CacheAlone DEF Restore
<1> QED BY <1>1, <1>2, <1>3, LookUpKeepsWorkingSet, DispatchKeepsWorkingSet DEF Next

\* Through hits, puts, evictions and failures, for every size of the cache, it
\* holds exactly the MaxEntries identities hit or put last, in that order.
THEOREM CacheStaysWorkingSet == Spec => []CacheIsWorkingSet
<1>1. WInv => CacheIsWorkingSet
  BY DEF WInv
<1> QED BY InitIInv, NextIInv, WInvInit, NextWInv, <1>1, PTL DEF Spec
-----------------------------------------------------------------------------
(***************************************************************************)
(* Compile once.  A compilation that no failure undid is in the cache or   *)
(* in the hand of the step that made it; and while the identities that     *)
(* were ever compiled fit the cache, none of them leaves it.               *)
(***************************************************************************)
Compiled == { i \in Identities : compiles[i] # 0 }

InHand(i) == pc = "dispatch" /\ call.cacheable /\ i = Identity

OnlyCompiledCached == \A i \in Identities : touched[i] # 0 => compiles[i] # 0

CompiledBeforePut ==
  pc \in {"compile", "dispatch"} /\ call.cacheable =>
    /\ handle = Uncompiled => place[Identity] = 0
    /\ handle # Uncompiled => compiles[Identity] # 0

NoneLost ==
  Cardinality(Compiled) <= MaxEntries =>
    \A i \in Identities :
      \/ compiles[i] <= failures[i]
      \/ compiles[i] = failures[i] + 1 /\ (i \in Cached \/ InHand(i))

CInv == OnlyCompiledCached /\ CompiledBeforePut /\ NoneLost

\* While they fit, every identity that was ever touched is recent.
LEMMA FewAreRecent ==
  ASSUME NEW t \in [Identities -> Nat], NEW C \in SUBSET Identities,
         Cardinality(C) <= MaxEntries, \A j \in Identities : t[j] # 0 => j \in C,
         NEW i \in Identities, t[i] # 0
  PROVE  i \in Recent(t)
<1>1. Above(t, i) \in SUBSET C /\ i \in C \ Above(t, i)
  BY DEF Above
<1>2. /\ Cardinality(Above(t, i)) < Cardinality(C)
      /\ Cardinality(Above(t, i)) \in Nat /\ Cardinality(C) \in Nat
  BY <1>1, Sizes
<1> QED BY <1>2, ReuseAssumption DEF Recent

LEMMA CInvInit == Init => CInv
BY DEF Init, CInv, OnlyCompiledCached, CompiledBeforePut, NoneLost

\* A step that changes nothing but where the executor is.
LEMMA CountsAlone ==
  ASSUME IInv, CInv, UNCHANGED <<cache, counts>>,
         \A i \in Identities : InHand(i) => InHand(i)',
         pc' \in {"compile", "dispatch"} => UNCHANGED <<call, kernel, handle>>
                                            /\ pc \in {"compile", "dispatch"}
  PROVE  CInv'
<1>1. OnlyCompiledCached' /\ CompiledBeforePut'
  BY DEF CInv, OnlyCompiledCached, CompiledBeforePut, cache, counts, Identity
<1>2. UNCHANGED <<Compiled, Cached>>
  BY DEF Compiled, Cached, cache, counts
<1>3. NoneLost'
  BY <1>2 DEF CInv, NoneLost, counts
<1> QED BY <1>1, <1>3 DEF CInv

LEMMA LookUpKeepsCounts ==
  ASSUME IInv, WInv, CInv, LookUp
  PROVE  CInv'
<1>1. /\ Identity \in Identities /\ Identity' = Identity /\ TypeOK
      /\ UNCHANGED counts /\ handle = Uncompiled /\ call' = call
      /\ pc = "prepare" /\ pc' = "compile"
  BY IdentityType DEF LookUp, IInv, StepIsHonest, TypeOK, Identity
<1>2. /\ Cached' = Cached
      /\ \A i \in Identities : touched'[i] # 0 => touched[i] # 0 \/ i \in Cached
  BY <1>1 DEF LookUp, MoveToEnd, Cached, TypeOK
<1>3. \A i \in Cached : compiles[i] # 0
  BY RecentFacts DEF WInv, CacheIsWorkingSet, Recent, CInv, OnlyCompiledCached
<1>4. OnlyCompiledCached'
  BY <1>1, <1>2, <1>3 DEF CInv, OnlyCompiledCached, counts
<1>5. CompiledBeforePut'
  <2>1. CASE call.cacheable /\ place[Identity] # 0
    <3>1. handle' = entries[Identity] /\ entries[Identity] = Identity
      BY <1>1, <2>1 DEF LookUp, IInv, CacheHonest, Cached
    <3>2. compiles[Identity] # 0
      BY <1>1, <1>3, <2>1 DEF Cached
    <3> QED BY <1>1, <3>1, <3>2, SentinelAssumption DEF CompiledBeforePut, counts
  <2>2. CASE ~(call.cacheable /\ place[Identity] # 0)
    BY <1>1, <2>2 DEF LookUp, CompiledBeforePut
  <2> QED BY <2>1, <2>2
<1>6. NoneLost'
  BY <1>1, <1>2 DEF CInv, NoneLost, Compiled, InHand, counts
<1> QED BY <1>4, <1>5, <1>6 DEF CInv

LEMMA CompileKeepsCounts ==
  ASSUME IInv, CInv, Compile
  PROVE  CInv'
<1>1. /\ Identity \in Identities /\ Identity' = Identity /\ TypeOK
      /\ UNCHANGED <<cache, failures>> /\ call' = call /\ Cached' = Cached
      /\ pc = "compile" /\ pc' = "dispatch" /\ handle' = Identity
  BY IdentityType DEF Compile, IInv, StepIsHonest, TypeOK, Identity, cache, Cached
<1>2. CASE ~(handle = Uncompiled /\ call.cacheable)
  <2>1. UNCHANGED compiles
    BY <1>2 DEF Compile
  <2>2. OnlyCompiledCached' /\ CompiledBeforePut'
    BY <1>1, <1>2, <2>1, SentinelAssumption
       DEF CInv, OnlyCompiledCached, CompiledBeforePut, cache
  <2>3. NoneLost'
    BY <1>1, <2>1 DEF CInv, NoneLost, Compiled, InHand
  <2> QED BY <2>2, <2>3 DEF CInv
<1>3. CASE handle = Uncompiled /\ call.cacheable
  <2>1. compiles' = [compiles EXCEPT ![Identity] = @ + 1]
    BY <1>3 DEF Compile
  <2>2. /\ compiles'[Identity] = compiles[Identity] + 1 /\ compiles'[Identity] # 0
        /\ \A i \in Identities \ {Identity} : compiles'[i] = compiles[i]
    BY <1>1, <2>1 DEF TypeOK
  <2>3. OnlyCompiledCached' /\ CompiledBeforePut'
    BY <1>1, <2>2, SentinelAssumption DEF CInv, OnlyCompiledCached, CompiledBeforePut, cache
  <2>4. Cardinality(Compiled') <= MaxEntries => Cardinality(Compiled) <= MaxEntries
    <3>1. Compiled \in SUBSET Compiled' /\ Compiled' \in SUBSET Identities
      BY <2>2 DEF Compiled
    <3>2. /\ Cardinality(Compiled) <= Cardinality(Compiled')
          /\ Cardinality(Compiled) \in Nat /\ Cardinality(Compiled') \in Nat
      BY <3>1, Sizes
    <3> QED BY <3>2, ReuseAssumption
  <2>5. Identity \notin Cached /\ \A i \in Identities : ~InHand(i)
    BY <1>1, <1>3 DEF CInv, CompiledBeforePut, Cached, InHand
  <2>6. ASSUME Cardinality(Compiled') <= MaxEntries, NEW i \in Identities
        PROVE  \/ compiles'[i] <= failures'[i]
               \/ compiles'[i] = failures'[i] + 1 /\ (i \in Cached' \/ InHand(i)')
    <3>1. \/ compiles[i] <= failures[i]
          \/ compiles[i] = failures[i] + 1 /\ i \in Cached
      BY <2>4, <2>5, <2>6 DEF CInv, NoneLost
    <3>2. compiles[i] \in Nat /\ failures[i] \in Nat
      BY <1>1 DEF TypeOK
    <3>3. CASE i = Identity
      <4>1. InHand(i)'
        BY <1>1, <1>3, <3>3 DEF InHand
      <4> QED BY <1>1, <2>2, <2>5, <3>1, <3>2, <3>3, <4>1
    <3>4. CASE i # Identity
      BY <1>1, <2>2, <3>1, <3>4
    <3> QED BY <3>3, <3>4
  <2> QED BY <2>3, <2>6 DEF CInv, NoneLost
<1> QED BY <1>2, <1>3

LEMMA DispatchKeepsCounts ==
  ASSUME IInv, WInv, CInv, Dispatch
  PROVE  CInv'
<1>1. /\ Identity \in Identities /\ TypeOK /\ UNCHANGED <<counts, call, kernel>>
      /\ pc = "dispatch" /\ pc' = "idle" /\ handle = Identity
  BY IdentityType DEF Dispatch, IInv, StepIsHonest, TypeOK
<1>2. UNCHANGED Compiled /\ CompiledBeforePut'
  BY <1>1 DEF Compiled, CompiledBeforePut, counts
<1>3. CASE ~call.cacheable
  <2>1. UNCHANGED <<cache, Cached>>
    BY <1>3 DEF Dispatch, cache, Cached
  <2> QED BY <1>1, <1>2, <1>3, <2>1
          DEF CInv, OnlyCompiledCached, NoneLost, InHand, cache, counts
<1>4. CASE call.cacheable
  <2>1. /\ touched' = [touched EXCEPT ![Identity] = clock + 1]
        /\ touched \in [Identities -> Nat] /\ clock \in Nat
    BY <1>1, <1>4 DEF Dispatch, Put, MoveToEnd, TypeOK
  <2>2. /\ touched' \in [Identities -> Nat] /\ touched'[Identity] # 0
        /\ \A i \in Identities \ {Identity} : touched'[i] = touched[i]
    BY <1>1, <2>1
  <2>3. compiles[Identity] # 0
    BY <1>1, <1>4, SentinelAssumption DEF CInv, CompiledBeforePut
  <2>4. OnlyCompiledCached'
    BY <1>1, <2>2, <2>3 DEF CInv, OnlyCompiledCached, counts
  <2>5. /\ Cached' = MostRecent' /\ MostRecent' = Recent(touched')
        /\ Cached \subseteq { i \in Identities : touched[i] # 0 }
    <3>1. CacheIsWorkingSet'
      BY DispatchKeepsWorkingSet DEF WInv
    <3>2. MostRecent' = Recent(touched')
      BY DEF MostRecent, Recent, Above
    <3>3. Cached \subseteq { i \in Identities : touched[i] # 0 }
      BY RecentFacts DEF WInv, CacheIsWorkingSet, Recent
    <3> QED BY <3>1, <3>2, <3>3 DEF CacheIsWorkingSet
  <2>6. ASSUME Cardinality(Compiled) <= MaxEntries
        PROVE  \A i \in Identities : touched'[i] # 0 => i \in Cached'
    <3>1. \A j \in Identities : touched'[j] # 0 => j \in Compiled
      BY <1>2, <2>4 DEF OnlyCompiledCached, Compiled
    <3>2. Compiled \in SUBSET Identities
      BY DEF Compiled
    <3> QED BY <2>2, <2>5, <2>6, <3>1, <3>2, FewAreRecent
  <2>7. NoneLost'
    <3> SUFFICES ASSUME Cardinality(Compiled) <= MaxEntries, NEW i \in Identities
                 PROVE  \/ compiles[i] <= failures[i]
                        \/ compiles[i] = failures[i] + 1 /\ i \in Cached'
      BY <1>1, <1>2 DEF NoneLost, counts
    <3>1. \/ compiles[i] <= failures[i]
          \/ compiles[i] = failures[i] + 1 /\ (i \in Cached \/ i = Identity)
      BY DEF CInv, NoneLost, InHand
    <3>2. i \in Cached \/ i = Identity => touched'[i] # 0
      BY <2>2, <2>5
    <3> QED BY <2>6, <3>1, <3>2
  <2> QED BY <1>2, <2>4, <2>7 DEF CInv
<1> QED BY <1>3, <1>4

LEMMA RaiseKeepsCounts ==
  ASSUME IInv, CInv, Raise
  PROVE  CInv'
<1>1. /\ Identity \in Identities /\ TypeOK /\ pc' = "idle"
      /\ UNCHANGED <<cache, Cached, compiles, Compiled>>
  BY IdentityType DEF Raise, IInv, TypeOK, cache, Cached, Compiled
<1>2. OnlyCompiledCached' /\ CompiledBeforePut'
  BY <1>1 DEF CInv, OnlyCompiledCached, CompiledBeforePut, cache
<1>3. ASSUME NEW i \in Identities
      PROVE  /\ failures[i] \in Nat /\ compiles[i] \in Nat
             /\ failures'[i] = IF InHand(i) THEN failures[i] + 1 ELSE failures[i]
  BY <1>1 DEF Raise, TypeOK, InHand
<1>4. NoneLost'
  <2> SUFFICES ASSUME Cardinality(Compiled) <= MaxEntries, NEW i \in Identities
               PROVE  \/ compiles[i] <= failures'[i]
                      \/ compiles[i] = failures'[i] + 1 /\ i \in Cached
    BY <1>1 DEF NoneLost
  <2> QED BY <1>3 DEF CInv, NoneLost
<1> QED BY <1>2, <1>4 DEF CInv

LEMMA NextCInv == IInv /\ WInv /\ CInv /\ [Next]_vars => CInv'
<1> SUFFICES ASSUME IInv, WInv, CInv, [Next]_vars PROVE CInv'
  OBVIOUS
<1>1. ASSUME NEW shape \in Shapes, NEW cacheable \in BOOLEAN, Step(shape, cacheable)
      PROVE  CInv'
  BY <1>1, CountsAlone DEF Step, InHand
<1>2. ASSUME NEW checkpoint \in Lifecycles, Restore(checkpoint)
      PROVE  CInv'
  BY <1>2, CountsAlone DEF Restore, InHand
<1>3. CASE UNCHANGED vars
  BY <1>3, CountsAlone DEF vars, InHand, Identity
<1> QED BY <1>1, <1>2, <1>3, LookUpKeepsCounts, CompileKeepsCounts, DispatchKeepsCounts,
           RaiseKeepsCounts DEF Next

LEMMA CompiledOnceFollows == IInv /\ CInv => CompiledOnce
<1> SUFFICES ASSUME IInv, CInv, Cardinality(Compiled) <= MaxEntries,
                    NEW i \in Identities
             PROVE  compiles[i] <= 1 + failures[i]
  BY DEF CompiledOnce, Compiled
<1> QED BY DEF IInv, TypeOK, CInv, NoneLost

\* While the identities in use fit the cache, whatever its size, an identity is
\* compiled again only after a step with it failed.
THEOREM CompilesOnce == Spec => []CompiledOnce
BY InitIInv, NextIInv, WInvInit, NextWInv, CInvInit, NextCInv, CompiledOnceFollows,
   PTL DEF Spec
=============================================================================
