--------------------------- MODULE MCFormalStudy ---------------------------
(* Two initializations whose frozen order is not their numeric order; scores *)
(* and skills of every relative size.                                      *)
EXTENDS FormalStudy

MCSeeds == <<7, 3>>
MCFamilies == {"ITRANSFORMER"}
MCScores == 1..2
MCSkills == {-1, 1, 2}
=============================================================================
