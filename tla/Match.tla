-------------------------------- MODULE Match --------------------------------
(***************************************************************************)
(* What a game promises its players, free of phases, clocks, messages and  *)
(* restarts: rounds are played one after another, each adds one line to a  *)
(* log that is never rewritten, and the game is decided by that log alone, *)
(* as soon as it decides.  gameplay.md states these rules; the code behind *)
(* them is IsGameOver, Leader and reveal of server/internal/core.          *)
(***************************************************************************)
EXTENDS Integers, Sequences, FiniteSets

CONSTANT MaxRounds

VARIABLES
    log,        \* per finished round: was it decoded, was it intercepted
    verdict     \* Open, or the winner: 1, 2, or 0 for a draw

Open == 3

matchVars == <<log, verdict>>

\* Team 1 encrypts the odd rounds, team 2 the even ones
RoundsOf(t) == {i \in DOMAIN log : i % 2 = t % 2}

Errors(t) == Cardinality({i \in RoundsOf(t) : ~log[i].decoded})
Interceptions(t) == Cardinality({i \in RoundsOf(3 - t) : log[i].intercepted})

Beaten(t) == Errors(t) >= 2 \/ Interceptions(3 - t) >= 2
Points(t) == Interceptions(t) - Errors(t)
Ahead == IF Points(1) = Points(2) THEN 0 ELSE IF Points(1) > Points(2) THEN 1 ELSE 2

Decided == Beaten(1) \/ Beaten(2)

Init == log = <<>> /\ verdict = Open

Play ==
    /\ verdict = Open /\ ~Decided /\ Len(log) < MaxRounds
    /\ \E decoded, intercepted \in BOOLEAN :
          /\ intercepted => Len(log) >= 2
          /\ log' = Append(log, [decoded |-> decoded, intercepted |-> intercepted])
    /\ UNCHANGED verdict

End ==
    /\ verdict = Open /\ (Decided \/ Len(log) = MaxRounds)
    /\ verdict' = IF Beaten(1) = Beaten(2) THEN Ahead ELSE IF Beaten(1) THEN 2 ELSE 1
    /\ UNCHANGED log

Next == Play \/ End

Spec == Init /\ [][Next]_matchVars
=============================================================================
