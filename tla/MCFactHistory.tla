---- MODULE MCFactHistory ----
(* An instance of FactHistory, and of Facts below it, for TLC. *)
EXTENDS MCFacts, FactHistory
====
