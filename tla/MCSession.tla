----------------------------- MODULE MCSession ------------------------------
(* An instance of Session for TLC: three lines, of which all but one read as *)
(* yes or no, any of which may start a drive, two questions for each drive,  *)
(* one front-door call and one restart.                                      *)
EXTENDS Session

RoutedByAnswer == [l \in Lines |-> IF l \in YesNo THEN "native" ELSE "supervise"]
=============================================================================
