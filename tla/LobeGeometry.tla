----------------------------- MODULE LobeGeometry -----------------------------
(***************************************************************************)
(* Directions at a surface, as coarse as the lobes can still be told apart. *)
(* A microfacet sample picks one of Cells facets with the same chance. Half *)
(* of them mirror an outgoing direction to its own side, each to a cell of  *)
(* its own, and all but the last refract it to a cell of the other side; no *)
(* facet refracts to cell 0 there. A cosine weighted sample hits a cell of  *)
(* the upper side or ends on the horizon.                                   *)
(*                                                                         *)
(* Probabilities given one closure count in units of 1 \div (2 * Cells),    *)
(* which splits the chance of a facet between reflection and transmission.  *)
(***************************************************************************)
EXTENDS Integers

Cells  == 4
Facets == 1 .. Cells
Upward == 1 .. Cells \div 2         \* The facets that mirror to the same side.

Lanes == 1 .. 2
One   == 8                          \* A weight of one in a lane.
Black == [l \in Lanes |-> 0]

Toward(side, cell) == [side |-> side, cell |-> cell]
Horizon            == Toward(0, 0)

(* An outgoing direction is above, below or on the horizon; a grazing one
   meets every facet beyond the critical angle of a denser medium. *)
Outgoing == {[side |-> s, grazing |-> g] : s \in {-1, 1}, g \in BOOLEAN}
            \cup {[side |-> 0, grazing |-> TRUE]}

Incoming(wo) ==
    IF wo.side = 0 THEN {Horizon} \cup {Toward(s, 1) : s \in {-1, 1}}
    ELSE {Horizon} \cup {Toward(wo.side, c) : c \in Upward}
                   \cup {Toward(-wo.side, c) : c \in 0 .. Cells - 1}

mirrored(wo, facet)  == Toward(IF facet \in Upward THEN wo.side ELSE -wo.side, facet)
refracted(wo, facet) == Toward(IF facet < Cells THEN -wo.side ELSE wo.side, facet)

critical(wo, facet) == wo.grazing \/ facet = Cells \div 2

(* A mirror and a straight or a bent refraction have one direction each. *)
Mirror(wo)      == Toward(wo.side, 1)
Straight(wo)    == Toward(-wo.side, 0)
Bent(wo, inward) == Toward(-wo.side, IF inward THEN 1 ELSE 2)
===============================================================================
