------------------------------ MODULE MCProfile ------------------------------
(* Instances of Profile for TLC. *)
EXTENDS Profile

\* "s" and "k" with a blank behind them, and a value with one.
MCTexts == {"", "s", "t", "k", "m", "v", "w", "s_", "k_", "v_"}
MCTrim  == [x \in MCTexts |-> CASE x = "s_" -> "s" [] x = "k_" -> "k" [] x = "v_" -> "v"
                                [] OTHER -> x]

MCLines == {Header("s", FALSE), Header("t", FALSE), Header("s", TRUE), Header("s_", FALSE),
            Pair("k", "v"), Pair("k_", "w"), Blank, Comment}

\* Files of one to three lines.
MCShipped == UNION {[1 .. n -> MCLines] : n \in 1 .. 3}
=============================================================================
