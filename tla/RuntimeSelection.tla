-------------------------- MODULE RuntimeSelection --------------------------
(***************************************************************************)
(* The choice of a runtime backend (runtime/selection.py): which of the    *)
(* declared backends serves a request on the devices that were observed.   *)
(*                                                                         *)
(* A declaration is a record of a backend's id, the platforms and the      *)
(* capabilities it declares, and whether it needs JAX to be there          *)
(* ("with_jax") or is available "always" or "never".  A request has a      *)
(* backend or NoBackend, a platform, whether a compatible fallback is      *)
(* allowed, the capabilities it requires and those its policies on         *)
(* placement, compilation and distribution come to.  An inspection has the *)
(* devices in the order JAX lists them.  The blockers of a candidate are   *)
(* told apart by their code and subject; messages are left out.            *)
(***************************************************************************)
EXTENDS Naturals, Sequences, FiniteSets, SequencesExt

CONSTANTS
    IdOrder,      \* the ids of backends, in their order as strings
    NoBackend,    \* no backend was asked for, or none was chosen
    NoPlatform,   \* no platform was chosen
    Declarations, \* the declarations a registry may hold, one for each id
    Inspections,  \* what a process may find itself to run on
    Questions     \* the requests a selection may be asked for

BackendIds == ToSet(IdOrder)

Preference == <<"gpu", "tpu", "metal", "cpu">>
Platforms == ToSet(Preference)

\* A device, and the process it belongs to.
Devices == [platform : STRING, process : Nat]

\* The declarations name platforms of SUPPORTED_RUNTIME_PLATFORMS.
ASSUME SelectionAssumption ==
    /\ IdOrder \in Seq(STRING) /\ IsInjective(IdOrder)
    /\ NoBackend \notin BackendIds
    /\ NoPlatform \notin Platforms \cup {"automatic", "unspecified"}
    /\ \A d \in Declarations :
          d.id \in BackendIds /\ d.platforms \subseteq Platforms
    /\ \A i \in Inspections : i.devices \in Seq(Devices)

PlaceOf(id) == SelectInSeq(IdOrder, LAMBDA x : x = id)

Precedes(a, b) == PlaceOf(a) < PlaceOf(b)

VisiblePlatforms(inspection) ==
    {inspection.devices[k].platform : k \in DOMAIN inspection.devices}

\* The first of the platforms in the fixed order of preference.
AutomaticPlatform(platforms) ==
    IF Platforms \cap platforms = {}
    THEN NoPlatform
    ELSE Preference[SelectInSeq(Preference, LAMBDA p : p \in platforms)]

Available(d, inspection) ==
    \/ d.available = "always"
    \/ d.available = "with_jax" /\ inspection.jax

-----------------------------------------------------------------------------
(* One candidate.                                                          *)

Blocker(code, subject) == [code |-> code, subject |-> subject]

Only(condition, blocker) == {b \in {blocker} : condition}

Compatible(d, inspection) ==
    AutomaticPlatform(d.platforms \cap VisiblePlatforms(inspection))

\* The platform asked for is one the backend supports and nobody sees.
Unseen(d, c, inspection) ==
    c.platform \in d.platforms \ VisiblePlatforms(inspection)

FallsBack(d, c, inspection) ==
    /\ Unseen(d, c, inspection)
    /\ Compatible(d, inspection) # NoPlatform
    /\ c.allowCompatible

\* Variant: whether the backend supports the platform is not asked.
SelectedPlatformIfSeen(d, c, inspection) ==
    IF c.platform = "automatic" \/ FallsBack(d, c, inspection)
    THEN Compatible(d, inspection)
    ELSE IF c.platform \in VisiblePlatforms(inspection)
         THEN c.platform
         ELSE NoPlatform

SelectedPlatform(d, c, inspection) ==
    IF c.platform = "automatic" \/ FallsBack(d, c, inspection)
    THEN Compatible(d, inspection)
    ELSE IF c.platform \in d.platforms \cap VisiblePlatforms(inspection)
         THEN c.platform
         ELSE NoPlatform

PlatformBlockers(d, c, inspection) ==
    Only(/\ c.platform # "unspecified"
         /\ SelectedPlatform(d, c, inspection) = NoPlatform,
         Blocker("requested_platform_unavailable", c.platform))
    \cup
    Only(/\ Unseen(d, c, inspection)
         /\ Compatible(d, inspection) # NoPlatform
         /\ ~c.allowCompatible,
         Blocker("runtime_fallback_disallowed", Compatible(d, inspection)))

Candidate(d, c, inspection) ==
    [backend  |-> d.id,
     platform |-> SelectedPlatform(d, c, inspection),
     fallback |-> \/ c.backend \notin {NoBackend, d.id}
                  \/ FallsBack(d, c, inspection),
     blockers |->
        Only(~Available(d, inspection),
             Blocker("runtime_backend_unavailable", d.id))
        \cup PlatformBlockers(d, c, inspection)
        \cup {Blocker("runtime_capability_missing", cap) :
                cap \in c.required \ d.capabilities}
        \cup {Blocker("runtime_policy_unsupported", cap) :
                cap \in c.policies \ d.capabilities}]

-----------------------------------------------------------------------------
(* The decision.                                                           *)

Failure(c, blockers) ==
    LET missing == {b.subject : b \in
                      {x \in blockers : x.code = "runtime_capability_missing"}}
    IN [ok |-> FALSE, backend |-> NoBackend, platform |-> NoPlatform,
        fallback |-> FALSE, blockers |-> blockers,
        missing |-> missing, satisfied |-> c.required \ missing]

Success(c, candidate) ==
    [ok |-> TRUE, backend |-> candidate.backend,
     platform |-> candidate.platform, fallback |-> candidate.fallback,
     blockers |-> {}, missing |-> {}, satisfied |-> c.required]

\* The candidates: the backend asked for, or every declared one where none
\* was asked for or, if fallbacks are allowed, the one asked for is not
\* registered.
Considered(c, declared) ==
    LET asked == {d \in declared : d.id = c.backend}
    IN IF c.backend = NoBackend \/ (asked = {} /\ c.allowCompatible)
       THEN declared ELSE asked

\* a comes before b: the platform asked for, then no fallback, then the id.
Better(a, b, c) ==
    LET exact(x) == x.platform = c.platform
    IN \/ exact(a) /\ ~exact(b)
       \/ exact(a) = exact(b) /\ ~a.fallback /\ b.fallback
       \/ /\ exact(a) = exact(b)
          /\ a.fallback = b.fallback
          /\ Precedes(a.backend, b.backend)

\* The candidate whose blockers a refusal reports.
Nearest(candidates) ==
    CHOOSE a \in candidates : \A b \in candidates \ {a} :
        \/ Cardinality(a.blockers) < Cardinality(b.blockers)
        \/ /\ Cardinality(a.blockers) = Cardinality(b.blockers)
           /\ Precedes(a.backend, b.backend)

Select(c, declared, inspection) ==
    LET candidates == {Candidate(d, c, inspection) :
                          d \in Considered(c, declared)}
        eligible   == {x \in candidates : x.blockers = {}}
    IN IF eligible # {}
       THEN Success(c, CHOOSE a \in eligible :
                          \A b \in eligible \ {a} : Better(a, b, c))
       ELSE IF candidates # {}
            THEN Failure(c, Nearest(candidates).blockers)
            ELSE Failure(c, {Blocker("runtime_backend_not_found", c.backend)})

-----------------------------------------------------------------------------
(* What a decision must be, whatever is registered and seen.               *)

\* The backend d can serve the request on the platform p.
Serves(d, c, p, inspection) ==
    /\ Available(d, inspection)
    /\ c.required \cup c.policies \subseteq d.capabilities
    /\ IF c.platform = "unspecified" THEN p = NoPlatform
       ELSE /\ p \in d.platforms \cap VisiblePlatforms(inspection)
            /\ c.platform \in {"automatic"} \cup d.platforms

\* To choose d on p is to do as the request says.
AsAsked(d, c, p) ==
    /\ c.backend \in {NoBackend, d.id}
    /\ c.platform \in {"automatic", "unspecified", p}

\* What is chosen serves the request.  It is other than what was asked for only
\* where that is allowed and nothing as asked would serve, and the decision says
\* so.  A request is turned down only if nothing it may be given serves it.
Honest(inspection, declared, c) ==
    LET chosen   == Select(c, declared, inspection)
        choices  == Considered(c, declared) \X (Platforms \cup {NoPlatform})
        serving  == {x \in choices :
                        /\ Serves(x[1], c, x[2], inspection)
                        /\ AsAsked(x[1], c, x[2]) \/ c.allowCompatible}
        as_asked == {x \in serving : AsAsked(x[1], c, x[2])}
    IN IF chosen.ok
       THEN \E x \in serving :
               /\ x[1].id = chosen.backend /\ x[2] = chosen.platform
               /\ x \in as_asked \/ as_asked = {}
               /\ chosen.fallback <=> x \notin as_asked
       ELSE serving = {}
=============================================================================
