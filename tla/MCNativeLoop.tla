---------------------------- MODULE MCNativeLoop ----------------------------
(* Instances of NativeLoop for TLC: one follow-up and one steer, two steps,  *)
(* a fresh conversation or one that continues an earlier drive, and the      *)
(* replies whose dispatch differs.                                           *)
EXTENDS NativeLoop

Histories == {<<>>, <<"goal", "text">>}

Replies == {<<>>, <<"finish", "run">>, <<"ask">>, <<"ask", "other">>,
            <<"finish", "sleep">>}
=============================================================================
