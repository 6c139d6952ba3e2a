--------------------------- MODULE MCRegression -----------------------------
(* Sessions of two requests, and MaxCommands commands over them.             *)
EXTENDS Regression
=============================================================================
