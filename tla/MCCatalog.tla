----------------------------- MODULE MCCatalog -----------------------------
(* A small instance of Catalog for TLC: two campaigns, each with the rows   *)
(* of either kind, and one request at a time that asks one of three things. *)
(* The second kind has no segment row: Overlooked is not empty.             *)
EXTENDS Catalog

Row(segment, device, format, creative, daypart) ==
    [t \in Tables |-> CASE t = "segment" -> segment [] t = "device" -> device
                        [] t = "format" -> format [] t = "creative" -> creative
                        [] OTHER -> daypart]

MCRows == {Row({1}, {}, {1}, {1}, {}), Row({}, {2}, {}, {1, 2}, {1})}

(* Nothing known; a segment and a format; a device as well.                 *)
MCAsked == {[d \in Dimensions |-> IF d \in known THEN {1} ELSE {}] :
               known \in {{}, {"segment", "format"}, Dimensions}}

=============================================================================
