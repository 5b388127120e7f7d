-------------------------- MODULE RuntimeContexts ---------------------------
(***************************************************************************)
(* The backend registry and the device contexts a JAX backend keeps        *)
(* (runtime/registry.py), shared by the learning lifecycles bound through  *)
(* runtime/lifecycle.py and by the smokes of runtime/portability.py and    *)
(* runtime/smoke.py.                                                       *)
(*                                                                         *)
(* The backend keeps a device per context id, and the id is made of what   *)
(* the context is for, its platform and its seed.  A smoke closes what it  *)
(* opened; a lifecycle never does, and finds its device by its context's   *)
(* id at every step.                                                       *)
(*                                                                         *)
(* The program has one thread: nothing else happens while a smoke runs.    *)
(* A smoke's phases are places in Phases; it fails at any of them, and it  *)
(* may be interrupted between its calls by what is no Exception.  Refused  *)
(* calls change nothing and are no steps.  Names that RuntimeStateFiles    *)
(* has too begin with "Contexts": one module proves about both.            *)
(***************************************************************************)
EXTENDS RuntimeSelection

CONSTANTS
    Objects,        \* backend objects, registered under the ids they declare
    DeclarationOf,  \* what each of them declares
    Executing,      \* those that have the methods to open contexts
    ClosingRaises,  \* those whose close may raise, after it let go
    Lifecycles,     \* learning lifecycles of this process
    Requests,       \* the requests lifecycles and smokes are made with
    Nothing,        \* no object, device, context, smoke or receipt
    Refused         \* what a step's placement was answered

ASSUME ContextsAssumption ==
    /\ Requests \subseteq Questions
    /\ Executing \subseteq Objects /\ ClosingRaises \subseteq Objects
    /\ \A o \in Objects : DeclarationOf[o] \in Declarations
    /\ Refused # Nothing

\* The devices of the only process there is are its own.
ASSUME ProcessesAssumption ==
    \A i \in Inspections :
        i.processes = 1 =>
            \A k \in DOMAIN i.devices : i.devices[k].process = i.process

VARIABLES
    inspection,  \* the devices, the process and whether JAX is there; fixed
    registry,    \* the object registered under each id
    contexts,    \* per object and context id, the device it keeps
    lifecycles,  \* the binding of each lifecycle
    placed,      \* the device a lifecycle's last step was placed on
    smoke,       \* the smoke that runs
    receipt,     \* the receipt of the last smoke
    torn         \* history: whether, since a lifecycle was bound, a portability
                 \* smoke of its backend, platform and seed was torn down
contextsVars == <<inspection, registry, contexts, lifecycles, placed, smoke,
                  receipt, torn>>

-----------------------------------------------------------------------------
(* Registration.                                                           *)

Registered == {b \in BackendIds : registry[b] # Nothing}
Declared == {DeclarationOf[registry[b]] : b \in Registered}
Chosen(c) == Select(c, Declared, inspection)

Register(o, replace) ==
    LET b == DeclarationOf[o].id
    IN /\ smoke = Nothing
       /\ registry[b] = Nothing \/ replace
       /\ registry' = [registry EXCEPT ![b] = o]
       /\ UNCHANGED <<inspection, contexts, lifecycles, placed, smoke,
                      receipt, torn>>

Unregister(b) ==
    /\ smoke = Nothing /\ b \in Registered
    /\ registry' = [registry EXCEPT ![b] = Nothing]
    /\ UNCHANGED <<inspection, contexts, lifecycles, placed, smoke, receipt,
                   torn>>

-----------------------------------------------------------------------------
(* Devices and contexts.                                                   *)

DevicesOf(platform) ==
    {k \in DOMAIN inspection.devices :
        inspection.devices[k].platform = platform}

\* The device a lifecycle takes: the first that JAX lists.
FirstDevice(platform) ==
    CHOOSE k \in DevicesOf(platform) : \A j \in DevicesOf(platform) : k <= j

LocalDevices(platform) ==
    {k \in DevicesOf(platform) :
        inspection.devices[k].process = inspection.process}

\* The device a portability smoke takes: the least id of this process.  Within
\* a process, and below ten devices, ids sort as JAX lists the devices.
SmokeDevice(platform) ==
    LET local == LocalDevices(platform)
    IN IF local = {} THEN Nothing
       ELSE CHOOSE k \in local : \A j \in local : k <= j

ContextId(use, platform, seed) == <<use, platform, seed>>

Uses == {"portability", "smoke"}
Seeds == {c.seed : c \in Requests}
ContextIds == {ContextId(u, p, s) : u \in Uses, p \in Platforms, s \in Seeds}

OpenContext(o, id, device) == [contexts EXCEPT ![o][id] = device]

\* Variant: closing forgets every context.
CloseEveryContext(o, id) == [contexts EXCEPT ![o] = [i \in ContextIds |-> Nothing]]

CloseContext(o, id) == [contexts EXCEPT ![o][id] = Nothing]

-----------------------------------------------------------------------------
(* Learning lifecycles.                                                    *)

BindingOf(c, platform) ==
    [object   |-> registry[c.backend],
     platform |-> platform,
     seed     |-> c.seed,
     device   |-> FirstDevice(platform)]

Bind(l, c) ==
    LET platform == Chosen(c).platform
        bound    == BindingOf(c, platform)
    IN /\ smoke = Nothing /\ lifecycles[l] = Nothing
       /\ c.backend \in Registered
       /\ Chosen(c).ok /\ platform # NoPlatform
       /\ Chosen(c).backend = c.backend
       /\ bound.object \in Executing
       /\ platform \in {"cpu", "gpu", "tpu"}
       /\ lifecycles' = [lifecycles EXCEPT ![l] = bound]
       /\ contexts' = OpenContext(bound.object,
                           ContextId("portability", platform, c.seed),
                           bound.device)
       /\ UNCHANGED <<inspection, registry, placed, smoke, receipt, torn>>

IdOf(binding) == ContextId("portability", binding.platform, binding.seed)

\* The device the backend holds for a lifecycle.
Kept(l) == contexts[lifecycles[l].object][IdOf(lifecycles[l])]

\* One step's inputs are placed.  Where the context is gone, the only device
\* there is takes its place, and where there are several the step is refused.
PlaceStep(l) ==
    /\ smoke = Nothing /\ lifecycles[l] # Nothing
    /\ \/ /\ Kept(l) # Nothing
          /\ placed' = [placed EXCEPT ![l] = Kept(l)]
          /\ UNCHANGED contexts
       \/ /\ Kept(l) = Nothing /\ Len(inspection.devices) = 1
          /\ placed' = [placed EXCEPT ![l] = 1]
          /\ contexts' = OpenContext(lifecycles[l].object, IdOf(lifecycles[l]), 1)
       \/ /\ Kept(l) = Nothing /\ Len(inspection.devices) # 1
          /\ placed' = [placed EXCEPT ![l] = Refused]
          /\ UNCHANGED contexts
    /\ UNCHANGED <<inspection, registry, lifecycles, smoke, receipt, torn>>

-----------------------------------------------------------------------------
(* Smokes.                                                                 *)

Phases == <<"initialization", "placement", "execution", "synchronization",
            "result", "state">>

\* The CPU smoke saves no runtime state.
Length(use) == IF use = "smoke" THEN Len(Phases) - 1 ELSE Len(Phases)

SmokeOf(use, c, device) ==
    [use |-> use, object |-> registry[Chosen(c).backend], asked |-> c.backend,
     platform |-> c.platform, seed |-> c.seed, device |-> device,
     passed |-> 0, blockers |-> << >>]

\* evaluate_runtime_resume_compatibility of a state with the request it was
\* made for: only the backend that served may differ from the one asked for.
Resumable(s) == s.asked \in {NoBackend, DeclarationOf[s.object].id}

\* Variant: the status is settled before the teardown is known.
ReceiptBeforeTeardown(s, blockers) ==
    [use |-> s.use, status |-> IF s.blockers = << >> THEN "pass" ELSE "fail",
     platform |-> s.platform, device |-> s.device,
     synchronized |-> s.passed >= 4, validated |-> s.passed >= 5,
     roundTrip |-> s.passed = 6, blockers |-> blockers]

\* The receipt of a smoke that ran.
Receipt(s, blockers) ==
    [use |-> s.use, status |-> IF blockers = << >> THEN "pass" ELSE "fail",
     platform |-> s.platform, device |-> s.device,
     synchronized |-> s.passed >= 4, validated |-> s.passed >= 5,
     roundTrip |-> s.passed = 6, blockers |-> blockers]

\* The receipt of a smoke that found nothing to run on.
Declined(use, status, c) ==
    [use |-> use, status |-> status, platform |-> c.platform,
     device |-> Nothing, synchronized |-> FALSE, validated |-> FALSE,
     roundTrip |-> FALSE, blockers |-> <<status>>]

Answer(r) ==
    /\ receipt' = r
    /\ UNCHANGED <<inspection, registry, contexts, lifecycles, placed, smoke,
                   torn>>

BeginSmoke(s) ==
    /\ smoke' = s
    /\ receipt' = Nothing
    /\ UNCHANGED <<inspection, registry, contexts, lifecycles, placed, torn>>

PortabilitySmoke(c) ==
    /\ smoke = Nothing
    /\ c.platform \in {"cpu", "gpu", "tpu"}
    /\ LET device == SmokeDevice(c.platform)
       IN \/ /\ Chosen(c).ok /\ device # Nothing
             /\ BeginSmoke(SmokeOf("portability", c, device))
          \/ /\ ~Chosen(c).ok \/ device = Nothing
             /\ Answer(Declined("portability", "unavailable", c))

\* What the CPU smoke asks for before it runs anything.
CpuPreflight(c) ==
    /\ c.backend = "jax" /\ c.platform = "cpu"
    /\ c.policies = {} /\ ~c.allowCompatible
    /\ inspection.processes = 1
    /\ Chosen(c).ok

CpuSmoke(c) ==
    /\ smoke = Nothing
    /\ \/ CpuPreflight(c) /\ BeginSmoke(SmokeOf("smoke", c, FirstDevice("cpu")))
       \/ ~CpuPreflight(c) /\ Answer(Declined("smoke", "fail", c))

Over == smoke.blockers # << >> \/ smoke.passed = Length(smoke.use)

SmokeId == ContextId(smoke.use, smoke.platform, smoke.seed)

\* A phase succeeds.  The first opens the context, the last resumes the state
\* it saved.
PhaseSucceeds ==
    /\ smoke # Nothing /\ ~Over
    /\ smoke.passed = 0 => smoke.object \in Executing
    /\ Phases[smoke.passed + 1] = "state" => Resumable(smoke)
    /\ smoke' = [smoke EXCEPT !.passed = @ + 1]
    /\ contexts' = IF smoke.passed = 0
                   THEN OpenContext(smoke.object, SmokeId, smoke.device)
                   ELSE contexts
    /\ UNCHANGED <<inspection, registry, lifecycles, placed, receipt, torn>>

\* A phase raises, or its answer is not the expected one: the rest is skipped.
PhaseFails ==
    /\ smoke # Nothing /\ ~Over
    /\ smoke' = [smoke EXCEPT !.blockers = <<Phases[smoke.passed + 1]>>]
    /\ UNCHANGED <<inspection, registry, contexts, lifecycles, placed,
                   receipt, torn>>

\* Variant: only a smoke that went well closes its context.
CleanUpAfterSuccess ==
    IF smoke.passed = Length(smoke.use)
    THEN CloseContext(smoke.object, SmokeId) ELSE contexts

\* The finally clause: the context is closed if there is one.
CleanUp ==
    IF smoke.passed >= 1 THEN CloseContext(smoke.object, SmokeId) ELSE contexts

Namesakes ==
    {l \in Lifecycles :
        /\ lifecycles[l] # Nothing
        /\ lifecycles[l].object = smoke.object
        /\ lifecycles[l].platform = smoke.platform
        /\ lifecycles[l].seed = smoke.seed
        /\ smoke.use = "portability" /\ smoke.passed >= 1}

Leave(r) ==
    /\ contexts' = CleanUp
    /\ torn' = [l \in Lifecycles |-> torn[l] \/ l \in Namesakes]
    /\ smoke' = Nothing
    /\ receipt' = r
    /\ UNCHANGED <<inspection, registry, lifecycles, placed>>

\* The smoke is torn down, well or not, and then its receipt is written.
Teardown(raises) ==
    /\ smoke # Nothing /\ Over
    /\ raises => smoke.passed >= 1 /\ smoke.object \in ClosingRaises
    /\ Leave(Receipt(smoke, smoke.blockers \o
                            IF raises THEN <<"teardown">> ELSE << >>))

\* An interrupt between two calls passes through the finally clause, and there
\* is no receipt.
Interrupted ==
    /\ smoke # Nothing /\ ~Over
    /\ Leave(Nothing)

-----------------------------------------------------------------------------
Bindings == [object : Objects, platform : Platforms, seed : Seeds, device : Nat]

Blockers == {"unavailable", "fail", "teardown"} \cup ToSet(Phases)

Smokes ==
    [use : Uses, object : Objects, asked : {c.backend : c \in Requests},
     platform : Platforms, seed : Seeds, device : Nat,
     passed : 0 .. Len(Phases), blockers : Seq(Blockers)]

Receipts ==
    [use : Uses, status : {"pass", "fail", "unavailable"},
     platform : Platforms \cup {c.platform : c \in Requests},
     device : Nat \cup {Nothing}, synchronized : BOOLEAN, validated : BOOLEAN,
     roundTrip : BOOLEAN, blockers : Seq(Blockers)]

ASSUME NothingAssumption ==
    Nothing \notin Objects \cup Nat \cup Bindings \cup Smokes

ContextsTypeOK ==
    /\ inspection \in Inspections
    /\ registry \in [BackendIds -> Objects \cup {Nothing}]
    /\ contexts \in [Objects -> [ContextIds -> Nat \cup {Nothing}]]
    /\ lifecycles \in [Lifecycles -> Bindings \cup {Nothing}]
    /\ placed \in [Lifecycles -> Nat \cup {Nothing, Refused}]
    /\ smoke \in Smokes \cup {Nothing}
    /\ receipt \in Receipts \cup {Nothing}
    /\ torn \in [Lifecycles -> BOOLEAN]

ContextsInit ==
    /\ inspection \in Inspections
    /\ registry = [b \in BackendIds |-> Nothing]
    /\ contexts = [o \in Objects |-> [id \in ContextIds |-> Nothing]]
    /\ lifecycles = [l \in Lifecycles |-> Nothing]
    /\ placed = [l \in Lifecycles |-> Nothing]
    /\ smoke = Nothing
    /\ receipt = Nothing
    /\ torn = [l \in Lifecycles |-> FALSE]

ContextsNext ==
    \/ \E o \in Objects, replace \in BOOLEAN : Register(o, replace)
    \/ \E b \in BackendIds : Unregister(b)
    \/ \E l \in Lifecycles, c \in Requests : Bind(l, c)
    \/ \E l \in Lifecycles : PlaceStep(l)
    \/ \E c \in Requests : PortabilitySmoke(c) \/ CpuSmoke(c)
    \/ PhaseSucceeds
    \/ PhaseFails
    \/ \E raises \in BOOLEAN : Teardown(raises)
    \/ Interrupted

ContextsSpec == ContextsInit /\ [][ContextsNext]_contextsVars

-----------------------------------------------------------------------------
(* What must hold.                                                         *)

\* A lifecycle's steps are placed on the device its context was selected for.
\* Only a portability smoke of the same backend, platform and seed, torn down
\* since, can cost it that device, and then only where there are several.
\* (place_execution_pytree, close_portability_context)
LifecyclesKeepTheirDevice ==
    \A l \in Lifecycles :
        \/ placed[l] = Nothing
        \/ placed[l] = Refused /\ torn[l] /\ Len(inspection.devices) # 1
        \/ placed[l] = lifecycles[l].device

\* Between smokes a backend keeps contexts of bound lifecycles only, however
\* the smokes ended.  (the finally clauses of both smokes)
SmokesCleanUp ==
    smoke = Nothing =>
        \A o \in Objects, id \in ContextIds :
            contexts[o][id] # Nothing =>
                \E l \in Lifecycles :
                    /\ lifecycles[l] # Nothing
                    /\ lifecycles[l].object = o /\ IdOf(lifecycles[l]) = id

\* A receipt passes only if every phase and the teardown went well on a device
\* of the requested platform in this process; a receipt that fails names the
\* first thing that went wrong first, and the teardown, if anything, after it.
\* (docs/P2_9, P2.9.1; docs/P2_4)
ReceiptTells ==
    receipt # Nothing =>
        LET b == receipt.blockers
            started == receipt.device # Nothing
            reached == IF receipt.roundTrip THEN 6
                       ELSE IF receipt.validated THEN 5
                       ELSE IF receipt.synchronized THEN 4 ELSE 0
        IN /\ receipt.status = "pass" <=> b = << >>
           /\ started =>
                /\ receipt.device \in LocalDevices(receipt.platform)
                /\ \/ b \in {<< >>, <<"teardown">>}
                      /\ reached = Length(receipt.use)
                   \/ \E k \in reached + 1 .. Length(receipt.use) :
                        b \in {<<Phases[k]>>, <<Phases[k], "teardown">>}

\* Whatever is registered, a selection serves its request, as asked where it
\* can, and only what cannot be served is refused.  It reads the registry and
\* the inspection only, so that asking before anything is bound or has run asks
\* of every registry there can be.  (select_runtime_backend)
SelectionHonest ==
    /\ smoke = Nothing /\ receipt = Nothing
    /\ \A l \in Lifecycles : lifecycles[l] = Nothing
    => \A c \in Questions : Honest(inspection, Declared, c)
=============================================================================
