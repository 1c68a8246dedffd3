------------------------------ MODULE Registry ------------------------------
(***************************************************************************)
(* The model registry (upstreams/upstreams.go): what Discover makes of the   *)
(* upstreams' model lists, and how a model is routed afterwards.  Nothing    *)
(* changes it after the start, so it is a set of operators over `listed`.    *)
(***************************************************************************)
EXTENDS Naturals, Sequences, Functions

CONSTANTS
    Upstreams,       \* sequence of the configured upstreams
    Models,          \* model ids
    FallbackModels,  \* model -> sequence of configured fallback models
    DefaultModel,    \* the configured default, or NoModel
    NoModel

ASSUME RegistryAssumption ==
    /\ Upstreams \in Seq(Range(Upstreams))
    /\ FallbackModels \in [Models -> Seq(Models)]
    /\ DefaultModel \in Models \cup {NoModel}
    /\ NoModel \notin Models

VARIABLE listed   \* upstream -> models it advertised; none if discovery failed

\* Mutant of Merge: a later upstream takes over a model that is claimed.
MergeTakesOver(owner, u) ==
    [m \in DOMAIN owner \cup listed[u] |-> IF m \in listed[u] THEN u ELSE owner[m]]

\* Registry.merge: the first upstream to claim a model keeps it.
Merge(owner, u) ==
    [m \in DOMAIN owner \cup listed[u] |-> IF m \in DOMAIN owner THEN owner[m] ELSE u]

\* Discover: the upstreams in their configured order.
Claimed[i \in 0..Len(Upstreams)] ==
    IF i = 0 THEN <<>> ELSE Merge(Claimed[i - 1], Upstreams[i])

Owner == Claimed[Len(Upstreams)]

\* SetFallbacks: a target nobody advertised is an error, unless its source is
\* not advertised either.
FallbacksAccepted ==
    \A m \in Models : m \in DOMAIN Owner => Range(FallbackModels[m]) \subseteq DOMAIN Owner

\* SetDefault: an unknown default is an error, too.
DefaultAccepted == DefaultModel # NoModel => DefaultModel \in DOMAIN Owner

\* ClientFor finds a client: the model has an owner, and every owner one.
Routable(m) == m \in DOMAIN Owner

\* CandidatesFor: the model and its fallbacks, those that are routable.
CandidatesFor(m) ==
    LET list == <<m>> \o FallbackModels[m]
        kept[i \in 0..Len(list)] ==
            IF i = 0 THEN <<>>
            ELSE IF Routable(list[i]) THEN Append(kept[i - 1], list[i])
            ELSE kept[i - 1]
    IN IF Routable(m) THEN kept[Len(list)] ELSE <<>>

=============================================================================
