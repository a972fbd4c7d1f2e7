----------------------------- MODULE MCSession ------------------------------
(***************************************************************************)
(* What keeps a game and its pages together, on small instances: the rules *)
(* of the game and the connection hub of the server, the store of a page   *)
(* and the loop that draws it.  Each is a machine of its own, with the     *)
(* others as its environment, so a behaviour follows one of them (part)    *)
(* while the others rest where they begin.                                 *)
(***************************************************************************)
EXTENDS Session, Hub, Page, Frames

VARIABLE part

Parts == {"rules", "hub", "page", "frames"}

\* Teams of two and three, so that the small team comes round to its first encryptor
MCSize == <<2, 3>>

\* A game of three rounds, the last with an interception and two actions that
\* run out of time, or two short games
Plain == [right |-> TRUE, hit |-> FALSE, late |-> {}]
Wrong == [right |-> FALSE, hit |-> FALSE, late |-> {}]
HitLate == [right |-> FALSE, hit |-> TRUE, late |-> Guesses]
LongOrTwo == {<< <<Wrong, Plain, HitLate>> >>, << <<Wrong>>, <<Plain>> >>}

\* Who the page is: the encryptor of round 3, an opponent of rounds 1 and 3,
\* or somebody who watches
AnySeat == {<<"A", 1>>, <<"B", 0>>, <<"", 0>>}

\* One of the states a part may begin in, where it rests
PageRests == seat = <<"", 0>> /\ match = << <<Wrong>>, <<Plain>> >>
FramesRest ==
    /\ loop = [raf |-> FALSE, sleep |-> FALSE, dirty |-> FALSE, owed |-> FALSE, disposed |-> TRUE,
               copy |-> "none", enabled |-> TRUE, failed |-> FALSE, checked |-> FALSE]
    /\ scene = [moving |-> FALSE, needle |-> FALSE, shadow |-> FALSE]
    /\ canvas = [rest |-> FALSE, regions |-> FALSE, kind |-> "none"]
    /\ pane = [sized |-> TRUE, hidden |-> FALSE, live |-> TRUE, front |-> TRUE]
    /\ \E level \in {CHOOSE l \in Levels : TRUE} :
          tuning = [choice |-> AutoQuality, auto |-> level, engine |-> level, probe |-> "due", warm |-> 0]

MCInit ==
    /\ part \in Parts
    /\ SessionInit /\ Init
    /\ PageInit /\ (part # "page" => PageRests)
    /\ IF part = "frames" THEN FramesInit ELSE FramesRest

RulesAlone == part = "rules" /\ UNCHANGED <<part, vars, pageVars, framesVars>>
HubAlone == part = "hub" /\ UNCHANGED <<part, sessionVars, pageVars, framesVars>>
PageAlone == part = "page" /\ UNCHANGED <<part, sessionVars, vars, framesVars>>
FramesAlone == part = "frames" /\ UNCHANGED <<part, sessionVars, vars, pageVars>>

MCNext ==
    \/ RulesAlone /\ SessionNext
    \/ HubAlone /\ Next
    \/ PageAlone /\ PageNext
    \/ FramesAlone /\ FramesNext

partVars == <<part, sessionVars, vars, pageVars, framesVars>>

\* What the hub, the connection of the page and its frames assume of their scheduling (Hub, Page, Frames)
MCFairness ==
    /\ WF_vars(part = "hub" /\ HubMoves)
    /\ WF_pageVars(part = "page" /\ PageMoves)
    /\ WF_framesVars(part = "frames" /\ FramesMove)

MCSpec == MCInit /\ [][MCNext]_partVars /\ MCFairness

\* A page that lost its connection gets its seat back or learns that it is gone,
\* once the network lets it (websocket.ts), and a machine that is seen comes to
\* draw what changed (engine.ts).
PageSettles == Recovers /\ ChangesAreShown
=============================================================================
