---------------------------- MODULE ProjectLife ----------------------------
(***************************************************************************)
(* The life of a project as an indexing worker sees it, which reads the    *)
(* PDF by the path it found in its own row and never looks at the          *)
(* project's row.                                                          *)
(***************************************************************************)
CONSTANT Projects

VARIABLE life  \* "unborn"; "live"; "unlinked": no PDF any more; "gone": no row either

lifeVars == life

LifeInit == life = [p \in Projects |-> "unborn"]

Become(p, from, to) == life[p] = from /\ life' = [life EXCEPT ![p] = to]

LifeNext ==
    \E p \in Projects :
        Become(p, "unborn", "live") \/ Become(p, "live", "unlinked")
            \/ Become(p, "unlinked", "gone")

LifeSpec == LifeInit /\ [][LifeNext]_lifeVars

=============================================================================
