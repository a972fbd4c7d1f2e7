----------------------------- MODULE VoiceLine -----------------------------
(***************************************************************************)
(* The page side of the Cloudflare line (services/cloudflareVoice.ts)      *)
(* against the server side of the same player                              *)
(* (voice/cloudflare/cloudflare.go).  Signals travel in order on the       *)
(* game's connection.  Session descriptions are applied one after the      *)
(* other by a chain of promises (work); a drop is applied at once.         *)
(***************************************************************************)
EXTENDS Naturals, Sequences

CONSTANTS
    Mids,       \* the tracks this player may be sent
    MaxCalls,   \* lines the page opens: a bound
    MaxPlans    \* times the server's plan for this player changes: a bound

VARIABLES
    call,       \* the page's line: its number, what it knows, its chain of work
    calls,      \* lines opened so far
    minted,     \* lines the server numbered so far
    playing,    \* tracks the page plays (host.hear, host.drop)
    down,       \* signals on their way to the page
    upward,     \* signals on their way to the server
    far,        \* the server's line of this player
    plan,       \* tracks the server lets this player hear now
    plans

lineVars == <<call, calls, minted, playing, down, upward, far, plan, plans>>

NoCall == [live |-> FALSE, named |-> 0, state |-> "new", up |-> FALSE, heard |-> {},
           work |-> <<>>, answering |-> FALSE]
NoFar == [id |-> 0, session |-> FALSE, live |-> FALSE, waiting |-> FALSE, heard |-> {}]

LineInit ==
    /\ call = NoCall /\ calls = 0 /\ minted = 0 /\ playing = {}
    /\ down = <<>> /\ upward = <<>>
    /\ far = NoFar /\ plan \in SUBSET Mids /\ plans = 0

-----------------------------------------------------------------------------
\* THE SERVER: signal, reconcile, drop, pull, hangup, fail

FarSays(op, mids) == [op |-> op, line |-> far.id, mids |-> mids]

\* What may no longer be heard is dropped; what may be heard now is offered,
\* one offer at a time, as far as the SFU gives its tracks
Reconciled(f, p, given, signals) ==
    LET gone == IF f.live THEN f.heard \ p ELSE {}
        kept == f.heard \ gone
        new == IF f.live /\ ~f.waiting THEN (p \ kept) \cap given ELSE {}
    IN /\ far' = [f EXCEPT !.heard = kept \cup new, !.waiting = @ \/ new # {}]
       /\ down' = down \o signals
             \o (IF gone = {} THEN <<>> ELSE <<[op |-> "drop", line |-> f.id, mids |-> gone]>>)
             \o (IF new = {} THEN <<>> ELSE <<[op |-> "offer", line |-> f.id, mids |-> new]>>)

ServerSignal(given, refused) ==
    /\ upward # <<>>
    /\ upward' = Tail(upward)
    /\ LET m == Head(upward)
           mine == far.id # 0 /\ m.line = far.id
           joins == m.op = "join" /\ ~refused
       IN /\ minted' = IF joins THEN minted + 1 ELSE minted
          /\ CASE joins ->
                    Reconciled([NoFar EXCEPT !.id = minted'], plan, given,
                               <<[op |-> "ice", line |-> minted', mids |-> {}]>>)
               [] m.op = "join" /\ refused ->
                    Reconciled(far, plan, given, <<[op |-> "failed", line |-> 0, mids |-> {}]>>)
               [] m.op = "publish" /\ mine /\ ~far.session ->
                    Reconciled([far EXCEPT !.session = TRUE], plan, given,
                               <<FarSays("published", {})>>)
               [] m.op = "connected" /\ mine /\ far.session ->
                    Reconciled([far EXCEPT !.live = TRUE], plan, given, <<>>)
               [] m.op = "answer" /\ mine /\ far.waiting ->
                    Reconciled([far EXCEPT !.waiting = FALSE], plan, given, <<>>)
               [] m.op = "leave" /\ mine -> far' = NoFar /\ UNCHANGED down
               [] OTHER -> UNCHANGED <<far, down>>
    /\ UNCHANGED <<call, calls, playing, plan, plans>>

\* Players come, go and change sides
PlanChanges(p, given) ==
    /\ p # plan /\ plans < MaxPlans
    /\ plan' = p /\ plans' = plans + 1
    /\ Reconciled(far, p, given, <<>>)
    /\ UNCHANGED <<call, calls, minted, playing, upward>>

\* A request to the SFU fails, or the page did not answer an offer in time
ServerFails ==
    /\ far.id # 0
    /\ far' = NoFar
    /\ down' = Append(down, FarSays("failed", {}))
    /\ UNCHANGED <<call, calls, minted, playing, upward, plan, plans>>

-----------------------------------------------------------------------------
\* THE PAGE

CallSays(op) == [op |-> op, line |-> call.named]

\* cloudflareLink(): a line starts with its join
BeginCall ==
    /\ ~call.live /\ calls < MaxCalls
    /\ calls' = calls + 1
    /\ call' = [NoCall EXCEPT !.live = TRUE]
    /\ upward' = Append(upward, [op |-> "join", line |-> 0])
    /\ UNCHANGED <<minted, playing, down, far, plan, plans>>

\* close(), and what the page played through the line is gone (voice.ts, lose)
CloseCall ==
    /\ call' = NoCall /\ playing' = {}
    /\ upward' = IF call.named # 0 THEN Append(upward, CallSays("leave")) ELSE upward

\* A step joins the chain; at the head of an idle chain an offer names its
\* speakers before the next signal is read
Queued(step) ==
    LET first == step.op = "offer" /\ call.work = <<>> IN
    call' = [call EXCEPT !.work = Append(@, step), !.answering = @ \/ first,
                         !.heard = IF first THEN @ \cup step.mids ELSE @]

\* receive()
ReceiveSignal ==
    /\ down # <<>>
    /\ down' = Tail(down)
    /\ LET m == Head(down)
           mine == call.live /\ m.line = call.named
       IN CASE call.live /\ call.named = 0 /\ m.op = "ice" ->
                 /\ call' = [call EXCEPT !.named = m.line, !.work = Append(@, [op |-> "publish"])]
                 /\ UNCHANGED <<playing, upward>>
            [] mine /\ m.op \in {"published", "offer"} ->
                 Queued([op |-> m.op, mids |-> m.mids]) /\ UNCHANGED <<playing, upward>>
            [] mine /\ m.op = "drop" ->
                 /\ call' = [call EXCEPT !.heard = @ \ m.mids]
                 /\ playing' = playing \ m.mids
                 /\ UNCHANGED upward
            [] mine /\ m.op = "failed" -> CloseCall
            [] OTHER -> UNCHANGED <<call, playing, upward>>
    /\ UNCHANGED <<calls, minted, far, plan, plans>>

AtHead(step) == call.live /\ call.work # <<>> /\ Head(call.work).op = step

\* publish(): the connection and its offer
PublishTracks ==
    /\ AtHead("publish")
    /\ call' = [call EXCEPT !.work = Tail(@), !.state = "offered"]
    /\ upward' = Append(upward, CallSays("publish"))
    /\ UNCHANGED <<calls, minted, playing, down, far, plan, plans>>

\* The answer is applied; the connection comes up some time after
TracksPublished ==
    /\ AtHead("published")
    /\ call' = [call EXCEPT !.work = Tail(@), !.state = "connecting"]
    /\ UNCHANGED <<calls, minted, playing, upward, down, far, plan, plans>>

CallConnected ==
    /\ call.live /\ call.state = "connecting" /\ ~call.up
    /\ call' = [call EXCEPT !.up = TRUE]
    /\ upward' = Append(upward, CallSays("connected"))
    /\ UNCHANGED <<calls, minted, playing, down, far, plan, plans>>

\* The answer is sent, and the tracks that still have a speaker are played
AnswerOffer ==
    /\ AtHead("offer") /\ call.answering
    /\ playing' = playing \cup (Head(call.work).mids \cap call.heard)
    /\ call' = [call EXCEPT !.answering = FALSE, !.work = Tail(@)]
    /\ upward' = Append(upward, CallSays("answer"))
    /\ UNCHANGED <<calls, minted, down, far, plan, plans>>

\* The connection fails, its deadline passes, a step of the chain fails, or the
\* player leaves
CallFails ==
    /\ call.live
    /\ CloseCall
    /\ UNCHANGED <<calls, minted, down, far, plan, plans>>

\* The game's connection drops, and both ends give up the line
BothHangUp ==
    /\ call' = NoCall /\ playing' = {} /\ far' = NoFar
    /\ down' = <<>> /\ upward' = <<>>
    /\ UNCHANGED <<calls, minted, plan, plans>>

LineNext ==
    \/ \E given \in SUBSET Mids, refused \in BOOLEAN : ServerSignal(given, refused)
    \/ \E p, given \in SUBSET Mids : PlanChanges(p, given)
    \/ ServerFails
    \/ BeginCall \/ ReceiveSignal \/ PublishTracks \/ TracksPublished \/ CallConnected
    \/ AnswerOffer \/ CallFails \/ BothHangUp

LineSpec == LineInit /\ [][LineNext]_lineVars

-----------------------------------------------------------------------------
LineTypeOK ==
    /\ playing \subseteq Mids /\ plan \subseteq Mids /\ far.heard \subseteq Mids
    /\ call.state \in {"new", "offered", "connecting"}

\* Once nothing is on its way and no answer is being made, the page plays what
\* the server has it receive, no track more: a track dropped while the offer
\* that named it was being answered is not played after all (receive, attach).
PlaysWhatIsSent ==
    call.up /\ call.work = <<>> /\ down = <<>> /\ far.id = call.named
        => playing = far.heard

\* What is published is never left on the air: a line the server holds live is the
\* one this page is on, or its leave is on the way (close, the ids of the lines).
FarIsNear ==
    far.live => \/ call.named = far.id /\ call.up
                \/ \E i \in DOMAIN upward : upward[i] = [op |-> "leave", line |-> far.id]

\* The two ends of the line agree, once nothing is on its way.
LineAgrees == LineTypeOK /\ PlaysWhatIsSent /\ FarIsNear
=============================================================================
