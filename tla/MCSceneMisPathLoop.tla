-------------------------- MODULE MCSceneMisPathLoop --------------------------
(* Limits and surfaces for TLC: a limit that only delta events reach, one
   only transmission reaches, and a depth that two of them can exhaust. *)
EXTENDS SceneMisPathLoop

MCDepthLimits == [k \in Category |-> CASE k = "diffuse"      -> 2
                                       [] k = "specular"     -> 3
                                       [] k = "transmission" -> 1
                                       [] OTHER              -> 0]

MCSurfaces == {{},
               {{"diffuse", "reflection"}},
               {{"glossy", "reflection"}, {"glossy", "transmission"}},
               {{"diffuse", "reflection"}, {"specular", "transmission"}},
               {{"specular", "reflection"}, {"specular", "transmission"}}}
=============================================================================
