--------------------------- MODULE MCConvergence ---------------------------
EXTENDS Convergence

\* Wordings 1 and 2 are alike, and 2 and 3, but not 1 and 3.
MCAlike == {p \in (1..3) \X (1..3) : p[1] - p[2] \in -1..1}
C(i, w) == [id |-> i, wording |-> w]
MCClaims == {C("a", 1), C("a", 2), C("a", 3), C("b", 1), C("b", 3), C("c", 1), C("d", 1)}
MCRounds == {<<C("a", 1)>>, <<C("a", 3)>>, <<C("c", 1)>>, <<C("d", 1)>>,
             <<C("a", 1), C("b", 1)>>, <<C("a", 2), C("a", 1)>>, <<C("b", 3), C("a", 2)>>,
             <<C("c", 1), C("d", 1)>>}
Older(claims, kind) == [claims |-> claims, kind |-> kind]
MCOlder == {<<>>, <<Older(<<C("a", 1)>>, "bare")>>, <<Older(<<C("a", 1)>>, "ids")>>,
            <<Older(<<C("a", 1), C("b", 1)>>, "bare"), Older(<<C("a", 1), C("b", 1)>>, "ids")>>}
=============================================================================
