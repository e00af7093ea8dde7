------------------------------- MODULE MCReplay ------------------------------
(* Replay on small instances; the constants are in the .cfg files.          *)
EXTENDS Replay, TLC

Link(e) == IF e = <<"home", 1>> THEN "shop" ELSE None

\* One application with a menu that is the same on both its pages and a link from one to the other.
Menu == [goes     |-> [e \in Element |-> Link(e)],
         selector |-> [e \in Element |-> e[2]],
         origin   |-> [p \in Pages |-> "app"]]

\* The second page lives elsewhere and has its elements in another order.
Abroad == [Menu EXCEPT !.origin["shop"] = "other",
                       !.selector = [e \in Element |-> IF e[1] = "shop" THEN 3 - e[2] ELSE e[2]]]

\* As Menu, but two elements of the first page that one selector fits.
Alike == [Menu EXCEPT !.selector[<<"home", 2>>] = 1]

MCSites == {Abroad, Alike}

=============================================================================
