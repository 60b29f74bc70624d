----------------------------- MODULE MCIdentity -----------------------------
(***************************************************************************)
(* Small instances of Identity for TLC.  A behaviour plays one scenario:   *)
(* all greetings together have too many states.                            *)
(***************************************************************************)
EXTENDS Identity, TLC

CONSTANTS b, x, y, r1, r2, s1, s2, i1, i2, c1, c2

VARIABLE scenario

Greeting(mode, run, sessions, process, takeover) ==
    [mode |-> mode, name |-> b, run |-> run, sessions |-> sessions,
     instance |-> process, takeover |-> takeover]

\* The MCP process and the lifecycle hook of a harness whose process the
\* daemon cannot prove, and a hook that resumes the session elsewhere.
StartupHellos ==
    {Greeting("allocate", r1, {}, None, FALSE),
     Greeting("allocate", r1, {s1}, None, FALSE),
     Greeting("allocate", r2, {s1}, None, FALSE)}

\* Two proven harness processes that resume the same session, and one that
\* reports the other's run with a session of its own.
ResumeHellos ==
    {Greeting("allocate", r1, {s1}, i1, FALSE),
     Greeting("allocate", r2, {}, i2, FALSE),
     Greeting("allocate", r2, {s1}, i2, FALSE),
     Greeting("allocate", r1, {s2}, i2, FALSE),
     Greeting("allocate", r2, {s1}, i2, TRUE)}

\* Configured names: a proven and an unproven launcher, and a connector of
\* the first protocol.
ExactHellos ==
    {Greeting("exact", r1, {}, i1, FALSE),
     Greeting("exact", r2, {}, None, TRUE),
     Greeting("allocate", r2, {}, i1, FALSE),
     Greeting("plain", r2, {}, None, FALSE)}

\* A harness that is proven, or not, and resumes its session, and another.
ArchiveHellos ==
    {Greeting("allocate", r1, {s1}, i1, FALSE),
     Greeting("allocate", r1, {s1}, None, FALSE),
     Greeting("allocate", r2, {}, None, FALSE)}

\* A harness, proven or not, whose actor may be adopted by a configured one.
AdoptHellos ==
    {Greeting("allocate", r1, {s1}, i1, FALSE),
     Greeting("allocate", r1, {s1}, None, FALSE),
     Greeting("plain", r2, {}, None, FALSE)}

Allocatable == {b} \X Suffixes

AllHellos == StartupHellos \cup ResumeHellos \cup ExactHellos
                 \cup ArchiveHellos \cup AdoptHellos

Startup == INSTANCE Identity WITH
    Hellos <- StartupHellos, Requests <- {"register", "heartbeat", "expire"},
    Addressees <- {}, Retirable <- {}
Resume == INSTANCE Identity WITH
    Hellos <- ResumeHellos, Requests <- {"register"},
    Addressees <- {}, Retirable <- {}
Exact == INSTANCE Identity WITH
    Hellos <- ExactHellos, Requests <- {"register"},
    Addressees <- {}, Retirable <- {}
Adoption == INSTANCE Identity WITH
    Hellos <- AdoptHellos, Requests <- {"register", "send"},
    Addressees <- Allocatable, Retirable <- {}
Archival == INSTANCE Identity WITH
    Hellos <- ArchiveHellos, Requests <- {"register"},
    Addressees <- {}, Retirable <- Allocatable

Scenarios == {"startup", "resume", "exact", "adoption", "archival"}

MCInit == Init /\ scenario \in Scenarios

Play(name, Step) == scenario = name /\ Step /\ UNCHANGED scenario

MCNext ==
    \/ Play("startup", Startup!Next)
    \/ Play("resume", Resume!Next)
    \/ Play("exact", Exact!Next)
    \/ Play("adoption", Adoption!Next)
    \/ Play("archival", Archival!Next)

MCSpec == MCInit /\ [][MCNext]_<<vars, scenario>>

\* Neither handlers nor random suffixes are ordered.
ConnSymmetry == Permutations(Conns) \cup Permutations(Suffixes)
=============================================================================
