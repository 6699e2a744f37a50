---------------------------- MODULE MCResources ----------------------------
(* Resources with one game, whose page is replaced by half of it. *)
EXTENDS Resources

File(order, owner, kind, names) ==
  [order |-> order, path |-> "", canonical |-> TRUE, host |-> "static", owner |-> owner, kind |-> kind, kendoo |-> FALSE,
   pack |-> FALSE, gone |-> FALSE, names |-> names, empty |-> {}, broken |-> {}]
Name(form, u) == [form |-> form, to |-> u]
Pages ==
  [game |-> File(2, "g", "script", <<{Name("path", "map"), Name("bare", "sheet")}>>),
   map |-> [File(1, "g", "page", <<{Name("path", to) : to \in {"loader", "loader?", "sheet", "game", "ads"}}, {}>>)
              EXCEPT !.broken = {2}],
   sheet |-> [File(5, "g", "data", <<{}>>) EXCEPT !.pack = TRUE, !.gone = TRUE],
   loader |-> [File(3, "g", "script", <<{Name("path", "map")}>>) EXCEPT !.kendoo = TRUE, !.empty = {1}],
   ads |-> [File(0, "other", "script", <<{}>>) EXCEPT !.host = "ads"]]
MCUrls == DOMAIN Pages \cup {"loader?"}
MCSite ==
  [u \in MCUrls |-> IF u = "loader?" THEN [Pages["loader"] EXCEPT !.order = 4, !.path = "loader", !.canonical = FALSE]
                    ELSE [Pages[u] EXCEPT !.path = u]]
MCEntryOf == [g \in Games |-> {"game"}]
MCTextOf == [g \in Games |-> {"game"}]
MCLoads == {{"map"}}
=============================================================================
