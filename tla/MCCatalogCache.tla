--------------------------- MODULE MCCatalogCache ---------------------------
(***************************************************************************)
(* Two loads, one upgrade, and a clock that runs past the age at which a    *)
(* catalog fetched at its beginning expires.                                *)
(***************************************************************************)
EXTENDS CatalogCache, TLC

CONSTANTS p1, p2

MCProcesses == {p1, p2}

Plain == [refresh |-> FALSE, bundled |-> FALSE]
Refreshed == [Plain EXCEPT !.refresh = TRUE]
Offline == [Plain EXCEPT !.bundled = TRUE]

MCRequests ==
    {p1 :> a @@ p2 :> b : a \in {Plain, Refreshed}, b \in {Plain, Refreshed, Offline}}
=============================================================================
