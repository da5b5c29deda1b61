------------------------ MODULE MCCpuWavefrontTransport ------------------------
(* A path scatters at most twice, by a diffuse reflection and a specular
   transmission in either order, and uses up either limit first. *)
EXTENDS CpuWavefrontTransport

MCDepthLimits ==
    [k \in Category |-> IF k \in {"diffuse", "specular", "transmission"} THEN 1 ELSE 0]

MCSurfaces == {{}, {{"diffuse", "reflection"}, {"specular", "transmission"}}}
=============================================================================
