----------------------------- MODULE MCPlayback -----------------------------
(* Playback for TLC: any two placements count at most MaxPlays plays between *)
(* them since the boot, and so does a single one.                            *)
EXTENDS Playback

CONSTANT MaxPlays

File(os, its, tpls) ==
  [outs |-> os, templates |-> tpls,
   items |-> [k \in Keys |-> IF k \in its THEN
                 [templateId |-> CHOOSE t \in tpls : TRUE, enabled |-> TRUE, held |-> FALSE]
               ELSE NoItem]]

\* An empty show, a show with every placement, a show that dropped some.
MCProjects ==
  {File({}, {}, {}), File(Outs, Keys, Templates), File(Outs, {}, Templates)}
  \cup {File({o}, {o} \X ItemIds, {t}) : o \in Outs, t \in Templates}

Bounded == \A j, k \in Keys :
  triggers[j] + (IF j = k THEN 0 ELSE triggers[k]) <= MaxPlays

MCNext == Next /\ Bounded'
MCSpec == Init /\ [][MCNext]_vars /\ Fairness
=============================================================================
