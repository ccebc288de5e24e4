------------------------------- MODULE MCStage -------------------------------
(* A stage of one or two instances and every kind of template. *)
EXTENDS Stage

MCForms ==
  {[kind |-> "layers", own |-> {"hide"}, rev |-> 0],
   [kind |-> "inline", own |-> {"show", "hide"}, rev |-> 0],
   [kind |-> "inline", own |-> {"show"}, rev |-> 0],
   [kind |-> "file", own |-> {"show", "hide"}, rev |-> 0]}

=============================================================================
