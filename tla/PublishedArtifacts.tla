------------------------- MODULE PublishedArtifacts -------------------------
(***************************************************************************)
(* What the artifact store promises, without files: a content becomes      *)
(* visible in one step, may be withdrawn while nobody has been given its   *)
(* reference, and is visible for ever once somebody has.                   *)
(***************************************************************************)
CONSTANT Contents

VARIABLES
  visible,  \* contents that verify
  granted   \* contents whose reference was returned to a publisher

publishedVars == <<visible, granted>>

PublishedInit == visible = {} /\ granted = {}

Appear(k) == k \notin visible /\ visible' = visible \cup {k} /\ UNCHANGED granted

Grant(k) == k \in visible /\ granted' = granted \cup {k} /\ UNCHANGED visible

Withdraw(k) == k \in visible \ granted /\ visible' = visible \ {k} /\ UNCHANGED granted

PublishedNext == \E k \in Contents : Appear(k) \/ Grant(k) \/ Withdraw(k)

PublishedSpec == PublishedInit /\ [][PublishedNext]_publishedVars
=============================================================================
