--------------------------- MODULE MCRenderQueue ---------------------------
(***************************************************************************)
(* Instances of RenderQueue for TLC: requests for one chapter, so that a   *)
(* job can end beside its successor.  A behaviour is of one part: in       *)
(* "oneBox" one of the boxes renders all of them, in "oneJob" one of the   *)
(* requests is made and every box may render it.                           *)
(***************************************************************************)
EXTENDS RenderQueue, TLC

CONSTANTS Parts, j1, j2, w1, w2, t1, t2, ch1

OneChapter == [j \in Jobs |-> ch1]

\* Jobs, boxes and threads are interchangeable.
Symmetry ==
    {p @@ q @@ r : p \in Permutations(Jobs), q \in Permutations(Boxes),
                   r \in Permutations(Threads)}

VARIABLES part, only

RenderInit == Init /\ part \in Parts /\ only \in IF part = "oneBox" THEN Boxes ELSE Jobs

RenderNext ==
    /\ UNCHANGED <<part, only>>
    /\ Next
    /\ IF part = "oneBox" THEN \A w \in Boxes \ {only} : box'[w] = Idle
                          ELSE \A j \in Jobs \ {only} : job'[j] = Absent

RenderSpec == RenderInit /\ [][RenderNext]_<<part, only, vars>>
=============================================================================
