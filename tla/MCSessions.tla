----------------------------- MODULE MCSessions -----------------------------
(* Sessions on a small instance: configurations and teams to start with. *)
EXTENDS Sessions, TLC

MCConfigs ==
  {[login |-> TRUE, builtin |-> {}, token |-> FALSE],
   [login |-> TRUE, builtin |-> {Admin}, token |-> TRUE],
   [login |-> FALSE, builtin |-> {Admin}, token |-> FALSE]}

\* A first start, and a team with a member and a key.
MCFiles ==
  {NoTeam,
   [users |-> [n \in Names |-> IF n = Admin THEN [DefaultAdmin EXCEPT !.default = FALSE]
                               ELSE [role |-> "member", groups |-> Groups, default |-> FALSE]],
    groups |-> [g \in Groups |-> [outs |-> Outs, keys |-> Keys]],
    outKeys |-> {}]}
=============================================================================
