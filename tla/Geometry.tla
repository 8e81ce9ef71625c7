------------------------------ MODULE Geometry ------------------------------
(* The arithmetic of a request for storage, shared by the VM group, the linear *)
(* group and the bare-metal port: sizes are rounded to pages without wrapping. *)
(* A request that the code answers with None has size 0.                       *)
EXTENDS Integers

CONSTANT UsizeMax
ASSUME UsizeAssumption == UsizeMax \in Nat \ {0}

IsizeMax == UsizeMax \div 2

is_power_of_two(n) == \E k \in 0..n : n = 2 ^ k

round_size(size, page) ==
    LET padded == size + page - 1
        rounded == (padded \div page) * page
    IN  IF \/ size = 0
           \/ ~is_power_of_two(page)
           \/ padded > UsizeMax
           \/ rounded > IsizeMax
        THEN 0 ELSE rounded

geometry(size, alignment, page) ==
    LET rounded == round_size(size, page)
        stricter == IF alignment > page THEN alignment ELSE page
    IN  IF \/ rounded = 0
           \/ alignment # 0 /\ ~is_power_of_two(alignment)
           \/ rounded + (stricter - page) > IsizeMax
        THEN [size |-> 0, alignment |-> page]
        ELSE [size |-> rounded, alignment |-> stricter]
=============================================================================
