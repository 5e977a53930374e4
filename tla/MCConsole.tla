------------------------------ MODULE MCConsole ------------------------------
(* Console with three files for binds.json.                                *)
EXTENDS Console

\* A clash that is found, one that is not, and a key no event carries.
Clash  == [Defaults EXCEPT !.KM_SESSION_WL = "k"]
Hidden == [Defaults EXCEPT !.KM_PURGE = "q", !.KM_SUP_SKIP = "i"]
NoKey  == [Defaults EXCEPT !.KM_REPMAN = "f1"]

ClashOrHidden == {Clash, Hidden}
AllFiles      == {Clash, Hidden, NoKey}
=============================================================================
