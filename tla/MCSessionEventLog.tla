-------------------------- MODULE MCSessionEventLog --------------------------
(* Turns whose response declares no tool call, one without an id, or two.   *)
EXTENDS SessionEventLog, TLC

CONSTANTS t1, t2, t3, c1, c2, noId

MCTwoTurns == {t1, t2}
MCThreeTurns == {t1, t2, t3}
MCTool == {c1, c2, noId}
MCCalls == {<<>>, <<c1, c2>>, <<noId>>}
\* Turns are alike.
MCSymmetry == Permutations(Turn)

MCOneCall == {<<c1>>}
=============================================================================
