----------------------------- MODULE MCRouting -----------------------------
(* Small instances of Routing for TLC. *)
EXTENDS Routing

CONSTANTS a, b, c, x, k, p, q    \* actors a and b, a process's name c, a name x, keys

Ask(op, by, key, alias_, actor) == [op |-> op, by |-> by, key |-> key, alias |-> alias_, actor |-> actor]

\* Both claim x, it is re-pointed and removed, c becomes an alias once the
\* process is gone; some requests share a key.
MCAliasRequests ==
    {Ask("claim", a, k, x, a), Ask("claim", b, k, x, b), Ask("set", a, p, x, b),
     Ask("remove", a, q, x, None), Ask("set", b, k, x, a), Ask("set", b, p, c, a)}

\* An alias for the name of a process that has done nothing yet.
EarlyRequests == {Ask("set", a, p, x, c), Ask("set", a, q, c, a)}

\* What the callers write: an old-style list, a typed route, and a reply.
MCSends ==
    {[from |-> a, key |-> k, typed |-> {}, plain |-> {x}, parent |-> None],
     [from |-> b, key |-> k, typed |-> {Route("alias", x)}, plain |-> {}, parent |-> None],
     [from |-> b, key |-> p, typed |-> {}, plain |-> {x}, parent |-> 1],
     [from |-> a, key |-> k, typed |-> {Route("actor", b)}, plain |-> {}, parent |-> None]}
=============================================================================
