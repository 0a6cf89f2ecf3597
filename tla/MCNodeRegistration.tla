------------------------ MODULE MCNodeRegistration ------------------------
(* A machine that may be relaunched once, and its operators.               *)
EXTENDS NodeRegistration

\* The tool's default, what post-build.sh runs, and the steps one by one.
Operators == {{"r", "a", "p"}, {"r", "R", "a", "p"}, {"r"}, {"a"}, {"p"}}
=============================================================================
