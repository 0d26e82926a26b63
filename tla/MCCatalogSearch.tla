--------------------------- MODULE MCCatalogSearch ---------------------------
(* One reader, three entries on two pages, of two services, and one owner.    *)
EXTENDS CatalogSearch

MCIds == {1, 2, 3}

\* Newest first, and a column in which the last two tie.
MCOrders == {<<3, 2, 1>>, <<1, 2, 2>>}

=============================================================================
