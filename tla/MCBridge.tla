------------------------------ MODULE MCBridge ------------------------------
(* A running game on small instances.  Seat <<t, i>> is player i of team t. *)
EXTENDS Bridge, TLC

MCSize == <<2, 2>>

\* Who is an AI player: nobody; the second player of team 2, so that an AI
\* decodes round 2; the whole of team 1, so that AI players encrypt and decode
\* round 3, which humans intercept
NoAI == {}
OneAI == {<<2, 1>>}
TeamAI == {<<1, 0>>, <<1, 1>>}

Symmetric == Permutations(Codes)

\* Two finished rounds, each decoded or not
Played(rs, c, right) ==
    LET r == NewRound(rs, c) IN
    Append(rs, [r EXCEPT !.state = "DONE", !.clues = Dashes, !.decrypted = TRUE,
                         !.decrypt = IF right THEN r.secret ELSE NoCode])

\* A bound: in a game followed from its beginning rounds 1 and 2 go every way they
\* can, and round 3 is followed after two rounds that left nothing behind but their
\* score
ScoreIsLeft ==
    Len(rounds) = 3 =>
        \E c \in Codes, right1, right2 \in BOOLEAN :
            SubSeq(rounds, 1, 2) = Played(Played(<<>>, c, right1), c, right2)

\* A game can also be followed from its third round, the first one with an
\* interception: restored after two finished rounds
RestoredInit ==
    /\ \E c \in Codes, right1, right2 \in BOOLEAN :
          rounds = Played(Played(<<>>, c, right1), c, right2)
    /\ saved = rounds
    /\ tokens = Recount(rounds)
    /\ control = "forward" /\ winner = 0
    /\ phase = "round_result" /\ round = 2 /\ timeouts = <<>>
    /\ acts = {} /\ accepted = {} /\ late = {} /\ draft = NoDraft
    /\ ch = Empty /\ sub = Idle /\ thinking = {} /\ answers = <<>>
    /\ at = "paused" /\ pick = Idle /\ todo = <<>>
    /\ cancelled = FALSE
    /\ kept = [phase |-> phase, round |-> 2, timeouts |-> <<>>, winner |-> 0]
    /\ told = NothingTold

RestoredSpec == RestoredInit /\ [][Next]_vars
RestoredFairSpec == RestoredSpec /\ Fairness

RestoredMatch == [][M!Next]_M!matchVars
=============================================================================
