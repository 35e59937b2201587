------------------------------ MODULE MCNoData ------------------------------
(* Every single sample through every stage; pairs of the patterns that are *)
(* special to a float; blocks of two rows for the fill.                    *)
EXTENDS NoData

Singles == {<<b>> : b \in Element}

\* A number, payloads of NaN, both zeros and an infinity.
Special == {0, 3, Infinity, Infinity + 1, Sign, Sign + Infinity + 1}
Pairs == {<<a, b>> : a \in Special, b \in Special}

Blocks == [1 .. 4 -> {3, Infinity + 1}]

MCRasters == Singles \cup Pairs \cup Blocks

MCLossyRasters == Singles \cup {<<3, Sign>>, <<Infinity + 1, 3>>}
=============================================================================
