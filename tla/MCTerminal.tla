----------------------------- MODULE MCTerminal -----------------------------
(***************************************************************************)
(* What a player works with, on small instances: the desk that turns the   *)
(* store into screens and requests, the voice and its line, the operation  *)
(* table, the notebook, the writing on it, and the keys.  They share       *)
(* nothing that the page does not hand to each of them, so a behaviour     *)
(* follows one of them (part) while the others rest where they begin.      *)
(***************************************************************************)
EXTENDS Desk, Voice, VoiceLine, Table, Notebook, Writing, Keys

VARIABLE part

Parts == {"desk", "voice", "line", "table", "notebook", "writing", "keys"}

\* One of the states a part may begin in, where it rests
TableRests == me = "A1" /\ turn = 2
NotebookRests == ~book.reduced /\ book.page = CHOOSE team \in Columns : TRUE

TerminalInit ==
    /\ part \in Parts
    /\ DeskInit /\ (part # "desk" => upLink)
    /\ VoiceInit /\ (part # "voice" => game.team = "A")
    /\ LineInit /\ (part # "line" => plan = {})
    /\ TableInit /\ (part # "table" => TableRests)
    /\ NotebookInit /\ (part # "notebook" => NotebookRests)
    /\ WritingInit
    /\ KeysInit

DeskAlone == part = "desk" /\ UNCHANGED <<part, voiceVars, lineVars, tableVars, notebookVars, writingVars, keysVars>>
VoiceAlone == part = "voice" /\ UNCHANGED <<part, deskVars, lineVars, tableVars, notebookVars, writingVars, keysVars>>
LineAlone == part = "line" /\ UNCHANGED <<part, deskVars, voiceVars, tableVars, notebookVars, writingVars, keysVars>>
TableAlone == part = "table" /\ UNCHANGED <<part, deskVars, voiceVars, lineVars, notebookVars, writingVars, keysVars>>
NotebookAlone == part = "notebook" /\ UNCHANGED <<part, deskVars, voiceVars, lineVars, tableVars, writingVars, keysVars>>
WritingAlone == part = "writing" /\ UNCHANGED <<part, deskVars, voiceVars, lineVars, tableVars, notebookVars, keysVars>>
KeysAlone == part = "keys" /\ UNCHANGED <<part, deskVars, voiceVars, lineVars, tableVars, notebookVars, writingVars>>

TerminalNext ==
    \/ DeskAlone /\ DeskNext
    \/ VoiceAlone /\ VoiceNext
    \/ LineAlone /\ LineNext
    \/ TableAlone /\ TableNext
    \/ NotebookAlone /\ NotebookNext
    \/ WritingAlone /\ WritingNext
    \/ KeysAlone /\ KeysNext

terminalVars == <<part, deskVars, voiceVars, lineVars, tableVars, notebookVars, writingVars, keysVars>>

TerminalSpec == TerminalInit /\ [][TerminalNext]_terminalVars

-----------------------------------------------------------------------------
\* Properties of several parts

\* Every voice is where the rules let it be, at this end of the line and at the
\* other: published, heard and shown on the lamp, and nowhere once the line is
\* left, whichever of key, page, game and line came first (voice.ts,
\* cloudflareVoice.ts).  Two cases are excepted by name, and no other: a join whose
\* tracks were in use when the browser answered another (replaced), for which
\* OnAirByTheRules fails, and a line lost while the browser asked, which does not
\* come back (LostWhileAsking).
VoiceByTheRules == VoiceObeys /\ LineAgrees

\* What a player draws, writes and enters is what they meant and stays where
\* they put it: ink on the open page, notes on the paper, numbers in the code,
\* whatever moves, resizes, opens or closes meanwhile (notebook.ts,
\* NotebookWriting.tsx, the key handler of Console.tsx)
EntriesStand == InkStands /\ NotesStand /\ KeysObey
=============================================================================
