--------------------------- MODULE MCTaskListing ----------------------------
(***************************************************************************)
(* Three tasks of "ann", two of them of the same instant, and one more     *)
(* that she or "bob" may create.                                           *)
(***************************************************************************)
EXTENDS TaskListing, TLC

MCTasks == 1..4
MCStatuses == {"pending", "done"}
MCRow ==
    [owner : {"ann"}, status : MCStatuses, created_at : 1..2]
        \cup [owner : {"bob"}, status : {"pending"}, created_at : {2}]
MCExisting ==
    [t \in MCTasks |->
        IF t = 3 THEN Absent
        ELSE [owner |-> "ann", status |-> "pending",
              created_at |-> IF t = 1 THEN 2 ELSE 1]]
Size(d, m) == [default_page_size |-> d, max_page_size |-> m]
MCSettings == {Size(1, 2), Size(0, 2)}
MCParams == {Omitted, 0, 2, 3}
=============================================================================
