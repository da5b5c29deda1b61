--------------------------- MODULE PathDepthLimits ---------------------------
(***************************************************************************)
(* The bookkeeping of scattering events that every path loop of the        *)
(* renderer shares: the per category counters of PathDepthLimits.cpp, the   *)
(* delta history of PathState.hpp and the filter that removes the closures  *)
(* a limit blocks.                                                         *)
(*                                                                         *)
(* A ScatteringLobe mask is the set of its bits, so a surface event is a    *)
(* set of one family and one direction, and the categories an event counts  *)
(* in are the members it shares with Category.                              *)
(***************************************************************************)
EXTENDS Naturals, FiniteSets

CONSTANTS
    DepthLimits,  \* PathDepthLimits: the accepted events of each category
    MaxDepth      \* the largest value of the std::uint32_t depths

Category  == {"diffuse", "glossy", "specular", "transmission", "volume"}
Family    == {"diffuse", "glossy", "specular"}
Direction == {"reflection", "transmission"}

ASSUME DepthAssumption ==
    /\ MaxDepth \in Nat \ {0}
    /\ DepthLimits \in [Category -> 0 .. MaxDepth]

SurfaceEvent    == {{f, d} : f \in Family, d \in Direction}
ScatteringEvent == SurfaceEvent \cup {{"volume"}}
Flag            == {"previous_bounce_was_delta", "any_non_delta_bounces"}
NoCounters      == [k \in Category |-> 0]

surface_total(c)    == c["diffuse"] + c["glossy"] + c["specular"]
path_depth_total(c) == surface_total(c) + c["volume"]

validate_path_depth_counters(c) ==
    /\ path_depth_total(c) <= MaxDepth
    /\ c["transmission"] <= surface_total(c)

validate_path_depth_state(c, total) ==
    /\ validate_path_depth_counters(c)
    /\ path_depth_total(c) = total
    /\ \A k \in Category : c[k] <= DepthLimits[k]

blocked_limits(c, event) == {k \in event \cap Category : c[k] >= DepthLimits[k]}

(* A plausible slip: an event only counts in its family. *)
advanced_family(c, event) ==
    [k \in Category |-> IF k \in event \cap Family THEN c[k] + 1 ELSE c[k]]

advanced_counters(c, event) ==
    [k \in Category |-> IF k \in event THEN c[k] + 1 ELSE c[k]]

(* A path at the largest representable depth takes no further event; a
   limit that blocks the event is reported first. *)
depth_exhausted(c) == path_depth_total(c) = MaxDepth

accepted(c, event) ==
    /\ validate_path_depth_state(c, path_depth_total(c))
    /\ blocked_limits(c, event) = {}
    /\ ~depth_exhausted(c)
    /\ validate_path_depth_state(advanced_counters(c, event), path_depth_total(c) + 1)

------------------------------------------------------
(* DepthFilteredClosureMixture: a surface is the set of events its closures
   can produce (a rough dielectric brings two). The mixture cannot be built
   when one of them cannot be evaluated. *)

allowed_events(c, surface)  == {e \in surface : accepted(c, e)}

(* A plausible slip: every category of a blocked event is named. *)
blocked_categories(c, surface) ==
    UNION {e \cap Category : e \in {x \in surface : blocked_limits(c, x) # {}}}

blocked_lobes(c, surface)   == UNION {blocked_limits(c, e) : e \in surface}
filter_fails(c, surface)    ==
    \/ ~validate_path_depth_state(c, path_depth_total(c))
    \/ \E e \in surface : blocked_limits(c, e) = {} /\ ~accepted(c, e)

is_delta_event(event) == "specular" \in event

next_delta_flags(flags, event) ==
    (flags \cap {"any_non_delta_bounces"}) \cup
    {IF is_delta_event(event) THEN "previous_bounce_was_delta" ELSE "any_non_delta_bounces"}

non_delta_depth(c) == c["diffuse"] + c["glossy"] + c["volume"]

(* What PathState::create demands of the counters and of the delta flags. *)
path_state_valid(c, flags) ==
    LET depth     == path_depth_total(c)
        delta     == "previous_bounce_was_delta" \in flags
        non_delta == "any_non_delta_bounces" \in flags
    IN  /\ validate_path_depth_counters(c)
        /\ depth = 0 => ~delta /\ ~non_delta
        /\ depth = 1 => ~(delta /\ non_delta)
        /\ depth # 0 => delta \/ non_delta
        /\ (non_delta_depth(c) # 0) <=> non_delta
        /\ delta => c["specular"] # 0
        /\ depth = 1 /\ delta => c["specular"] = 1
        /\ depth = 1 /\ ~delta => c["specular"] = 0
=============================================================================
