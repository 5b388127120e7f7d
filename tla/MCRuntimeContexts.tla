------------------------- MODULE MCRuntimeContexts --------------------------
(* Two JAX backends that compete for one id and a declaration of another;   *)
(* one device, several, and the second of two processes.                    *)
EXTENDS RuntimeContexts

CONSTANTS jax1, jax2, fake

MCIdOrder == <<"fake", "jax">>

Jax == [id |-> "jax", platforms |-> Platforms, available |-> "with_jax",
        capabilities |-> {"eager", "jit"}]
Fake == [id |-> "fake", platforms |-> {"cpu", "tpu"}, available |-> "always",
         capabilities |-> {"eager"}]
MCDeclarations == {Jax, Fake}
MCDeclarationOf == (jax1 :> Jax) @@ (jax2 :> Jax) @@ (fake :> Fake)

Device(platform, process) == [platform |-> platform, process |-> process]

MCInspections == {
    [devices |-> <<Device("cpu", 0)>>,
     process |-> 0, processes |-> 1, jax |-> TRUE],
    [devices |-> <<Device("gpu", 0), Device("gpu", 0)>>,
     process |-> 0, processes |-> 1, jax |-> TRUE],
    [devices |-> <<Device("cpu", 0), Device("cpu", 1)>>,
     process |-> 1, processes |-> 2, jax |-> TRUE],
    [devices |-> << >>, process |-> 0, processes |-> 1, jax |-> FALSE]}

Request(backend, platform, allowed, policies, seed) ==
    [backend |-> backend, platform |-> platform, allowCompatible |-> allowed,
     required |-> {}, policies |-> policies, seed |-> seed]

\* Either seed on a platform that may be there, as the defaults ask; and,
\* allowed to fall back, another platform, another backend, and whatever there is.
MCRequests ==
    {Request("jax", p, FALSE, {}, s) : p \in {"cpu", "gpu"}, s \in 0 .. 1}
    \cup {Request("jax", p, TRUE, {"jit"}, 0) : p \in {"gpu", "automatic"}}
    \cup {Request("other", "cpu", TRUE, {"jit"}, 0)}

MCQuestions ==
    MCRequests \cup
    {c \in [backend : {NoBackend, "jax", "fake", "other"},
            platform : {"cpu", "gpu", "tpu", "automatic", "unspecified"},
            allowCompatible : BOOLEAN,
            required : {{}, {"jit"}}, policies : {{}, {"jit"}}, seed : {0}] :
        c.required = {} \/ c.policies = {}}

LifecycleSymmetry == Permutations(Lifecycles)
=============================================================================
