------------------------------ MODULE StepReuse ------------------------------
(***************************************************************************)
(* What a production learning step is executed with: JaxLoopExecutor       *)
(* (steps/jax_loop.py) keeps one step kernel, and execute_function         *)
(* (runtime/execution.py) keeps compiled executions in a bounded cache     *)
(* keyed by the digest of the prepared execution identity.  Both must be   *)
(* right for the lifecycle the step trains and for the batch it is given.  *)
(*                                                                         *)
(* A lifecycle is its scopes (objective and update) and its "contract":    *)
(* everything else a kernel closes over, objective and optimizer           *)
(* configuration among it.  A batch is its shape, which stands for the     *)
(* signature of all arguments.  Digests do not collide.  The code is       *)
(* sequential, and may raise between any two of the steps below.  The      *)
(* executor's lifecycle is replaced by its own steps and by restores.      *)
(***************************************************************************)
EXTENDS Naturals, FiniteSets

CONSTANTS
  Contracts, Scopes, Shapes,
  MaxEntries,    \* PreparedExecutionReuseCache(max_entries)
  MaxCalls,      \* bound on the steps asked for in one behaviour
  NoKernel,
  Uncompiled     \* a handle whose executable is None

ASSUME ReuseAssumption ==
  /\ IsFiniteSet(Contracts) /\ IsFiniteSet(Scopes) /\ IsFiniteSet(Shapes)
  /\ MaxEntries \in Nat \ {0}
  /\ MaxCalls \in Nat

Lifecycles == [contract: Contracts, scope: Scopes]

\* RuntimePreparedExecutionIdentity: the kernel by source and closure values,
\* the arguments by their signature.
Identities == [contract: Contracts, scope: Scopes, shape: Shapes]

ASSUME SentinelAssumption == NoKernel \notin Lifecycles /\ Uncompiled \notin Identities

VARIABLES
  lifecycle,  \* executor.lifecycle
  kernel,     \* _step_kernel, by the lifecycle it was built from
  pc,         \* where the executor is in its step
  call,       \* the batch shape, and whether the execution may be cached
  handle,     \* what the prepared handle's executable was compiled for
  entries,    \* the cache: identity |-> what its handle was compiled for
  place,      \* identity |-> its place in the OrderedDict, 0 when not in it
  touched,    \* history: the last place an identity ever had
  clock,      \* the place of the last entry
  calls,      \* steps asked for
  compiles,   \* history: identity |-> cacheable compilations
  failures,   \* history: identity |-> cacheable steps that raised once compiled
  executed    \* history: what the last dispatch ran, and for which step

cache == <<entries, place, touched, clock>>
counts == <<compiles, failures>>
vars == <<lifecycle, kernel, pc, call, handle, cache, calls, counts, executed>>

Calls == [shape: Shapes, cacheable: BOOLEAN]
Executed == [ran: Identities, lifecycle: Lifecycles, shape: Shapes]

TypeOK ==
  /\ lifecycle \in Lifecycles
  /\ kernel \in Lifecycles \cup {NoKernel}
  /\ pc \in { "idle", "prepare", "compile", "dispatch" }
  /\ call \in Calls
  /\ handle \in Identities \cup {Uncompiled}
  /\ entries \in [Identities -> Identities \cup {Uncompiled}]
  /\ place \in [Identities -> Nat] /\ touched \in [Identities -> Nat]
  /\ clock \in Nat /\ calls \in 0..MaxCalls
  /\ compiles \in [Identities -> Nat] /\ failures \in [Identities -> Nat]
  /\ executed \in SUBSET Executed
  /\ pc # "idle" => kernel # NoKernel

Init ==
  /\ lifecycle \in Lifecycles
  /\ kernel = NoKernel
  /\ pc = "idle"
  /\ call \in Calls
  /\ handle = Uncompiled
  /\ entries = [i \in Identities |-> Uncompiled]
  /\ place = [i \in Identities |-> 0] /\ touched = place
  /\ clock = 0 /\ calls = 0
  /\ compiles = [i \in Identities |-> 0] /\ failures = compiles
  /\ executed = {}
-----------------------------------------------------------------------------
Cached == { i \in Identities : place[i] # 0 }

\* _finalize_prepared_identity of the step being executed.
Identity ==
  [contract |-> kernel.contract, scope |-> kernel.scope, shape |-> call.shape]

\* Variant: the first kernel is kept whatever the scopes.
StaleWithoutScopes == kernel = NoKernel

\* The kernel is rebuilt when there is none, or the scopes have changed.
Stale == kernel = NoKernel \/ kernel.scope # lifecycle.scope

\* Variant: the handle of the step before is kept.
StepKeepsHandle(shape, cacheable) ==
  /\ pc = "idle" /\ calls < MaxCalls
  /\ calls' = calls + 1
  /\ call' = [shape |-> shape, cacheable |-> cacheable]
  /\ kernel' = IF Stale THEN lifecycle ELSE kernel
  /\ pc' = "prepare"
  /\ UNCHANGED <<lifecycle, handle, cache, counts, executed>>

\* A step is asked for: the kernel is found or built, and prepared.
Step(shape, cacheable) ==
  /\ pc = "idle" /\ calls < MaxCalls
  /\ calls' = calls + 1
  /\ call' = [shape |-> shape, cacheable |-> cacheable]
  /\ kernel' = IF Stale THEN lifecycle ELSE kernel
  /\ handle' = Uncompiled
  /\ pc' = "prepare"
  /\ UNCHANGED <<lifecycle, cache, counts, executed>>

\* OrderedDict.move_to_end.
MoveToEnd(i) ==
  /\ clock' = clock + 1
  /\ touched' = [touched EXCEPT ![i] = clock + 1]

\* Variant: a hit leaves the order as it is.
LookUpInPlace ==
  /\ pc = "prepare"
  /\ handle' = IF call.cacheable /\ place[Identity] # 0 THEN entries[Identity]
               ELSE Uncompiled
  /\ IF call.cacheable /\ place[Identity] # 0
     THEN MoveToEnd(Identity) ELSE UNCHANGED <<touched, clock>>
  /\ pc' = "compile"
  /\ UNCHANGED <<lifecycle, kernel, call, entries, place, calls, counts, executed>>

\* PreparedExecutionReuseCache.get: a hit is moved to the end, and its handle
\* replaces the one just prepared.
LookUp ==
  /\ pc = "prepare"
  /\ \/ /\ call.cacheable /\ place[Identity] # 0
        /\ handle' = entries[Identity]
        /\ MoveToEnd(Identity)
        /\ place' = [place EXCEPT ![Identity] = clock + 1]
     \/ /\ ~(call.cacheable /\ place[Identity] # 0)
        /\ UNCHANGED <<handle, place, touched, clock>>
  /\ pc' = "compile"
  /\ UNCHANGED <<lifecycle, kernel, call, entries, calls, counts, executed>>

\* compile_runtime_execution: a handle that has an executable keeps it.
Compile ==
  /\ pc = "compile"
  /\ handle' = IF handle = Uncompiled THEN Identity ELSE handle
  /\ compiles' = IF handle = Uncompiled /\ call.cacheable
                 THEN [compiles EXCEPT ![Identity] = @ + 1] ELSE compiles
  /\ pc' = "dispatch"
  /\ UNCHANGED <<lifecycle, kernel, call, cache, calls, failures, executed>>

\* The entries that popitem(last=False) leaves: those with fewer than
\* MaxEntries entries behind them.
Kept(places) ==
  { i \in Identities : places[i] # 0
      /\ Cardinality({ j \in Identities : places[j] > places[i] }) < MaxEntries }

\* PreparedExecutionReuseCache.put.
Put ==
  LET places == [place EXCEPT ![Identity] = clock + 1]
  IN  /\ entries' = [entries EXCEPT ![Identity] = handle]
      /\ MoveToEnd(Identity)
      /\ place' = [i \in Identities |-> IF i \in Kept(places) THEN places[i] ELSE 0]

\* Variant: nothing is ever cached.
DispatchNeverPuts ==
  /\ pc = "dispatch"
  /\ executed' = { [ran |-> handle, lifecycle |-> lifecycle, shape |-> call.shape] }
  /\ pc' = "idle"
  /\ UNCHANGED <<lifecycle, kernel, call, handle, cache, calls, counts>>

\* dispatch_runtime_execution; an execution that passed is cached, and the
\* executor accepts it.
Dispatch ==
  /\ pc = "dispatch"
  /\ executed' = { [ran |-> handle, lifecycle |-> lifecycle, shape |-> call.shape] }
  /\ IF call.cacheable THEN Put ELSE UNCHANGED cache
  /\ pc' = "idle"
  /\ UNCHANGED <<lifecycle, kernel, call, handle, calls, counts>>

\* Preparation, compilation, dispatch or synchronisation fails: nothing is
\* cached and nothing is accepted.
Raise ==
  /\ pc # "idle"
  /\ failures' = IF pc = "dispatch" /\ call.cacheable
                 THEN [failures EXCEPT ![Identity] = @ + 1] ELSE failures
  /\ pc' = "idle"
  /\ UNCHANGED <<lifecycle, kernel, call, handle, cache, calls, compiles, executed>>

\* Variant: the restored lifecycle is the checkpoint's, unchecked.
RestoreUnchecked(checkpoint) ==
  /\ pc = "idle"
  /\ lifecycle' = checkpoint
  /\ UNCHANGED <<kernel, pc, call, handle, cache, calls, counts, executed>>

\* Between two steps a checkpoint callback may replace the lifecycle by one
\* restored from a checkpoint, which must be of its own contract; the scopes are
\* those of the checkpoint's learning state.
Restore(checkpoint) ==
  /\ pc = "idle"
  /\ checkpoint.contract = lifecycle.contract
  /\ lifecycle' = [lifecycle EXCEPT !.scope = checkpoint.scope]
  /\ UNCHANGED <<kernel, pc, call, handle, cache, calls, counts, executed>>

Next ==
  \/ \E shape \in Shapes, cacheable \in BOOLEAN : Step(shape, cacheable)
  \/ LookUp \/ Compile \/ Dispatch \/ Raise
  \/ \E checkpoint \in Lifecycles : Restore(checkpoint)

Spec == Init /\ [][Next]_vars
-----------------------------------------------------------------------------
(***************************************************************************)
(* Properties                                                              *)
(***************************************************************************)

\* No stale execution: what a dispatch runs was compiled for the contract and
\* the scopes of the lifecycle its step trains and for the shape of its batch,
\* through hits, evictions, failed steps and restored lifecycles, although the
\* kernel is rebuilt for other scopes only ("one stable learning kernel for each
\* prepared lifecycle signature").
RightExecution ==
  \A e \in executed :
    e.ran = [contract |-> e.lifecycle.contract, scope |-> e.lifecycle.scope,
             shape |-> e.shape]

\* "Keyed by the authoritative prepared-execution digest": what the cache holds
\* under an identity was compiled for it, whatever steps failed in between.
CacheHonest == \A i \in Cached : entries[i] = i

MostRecent ==
  { i \in Identities : touched[i] # 0
      /\ Cardinality({ j \in Identities : touched[j] > touched[i] }) < MaxEntries }

\* The cache is exactly the MaxEntries identities hit or put last, in that
\* order: it never grows beyond them and never drops one of them.
CacheIsWorkingSet ==
  /\ Cached = MostRecent
  /\ \A i \in Cached : place[i] = touched[i]

\* "Compile once": while the identities in use fit the cache, one is compiled
\* again only after a step with it failed.
CompiledOnce ==
  Cardinality({ i \in Identities : compiles[i] # 0 }) <= MaxEntries =>
    \A i \in Identities : compiles[i] <= 1 + failures[i]
=============================================================================
