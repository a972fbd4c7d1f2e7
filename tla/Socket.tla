------------------------------- MODULE Socket -------------------------------
(***************************************************************************)
(* The page's end of the connection (services/websocket.ts): one           *)
(* WebSocketService, the sockets it opens one after the other, and the     *)
(* timer that opens the next.  A line is one WebSocket; its callbacks hold *)
(* on to it after the service has moved on, so every event names the line  *)
(* it happened on; they are numbered as they are opened.  Time is in       *)
(* seconds.                                                                *)
(***************************************************************************)
EXTENDS Naturals

CONSTANT MaxLines       \* the sockets the page may ever open: a bound

ASSUME SocketAssumption == MaxLines \in Nat

Lines == 1 .. MaxLines
NoLine == 0

VARIABLES
    line,       \* readyState of each WebSocket; "unborn" before new WebSocket
    ws,         \* this.ws
    retrying,   \* this.reconnectTimer is set
    delay,      \* this.reconnectDelay
    leaving,    \* this.intentionalDisconnect
    service     \* the store holds a WebSocketService

socketVars == <<line, ws, retrying, delay, leaving, service>>

SocketStates == {"unborn", "connecting", "open", "closing", "closed"}
Live == {"connecting", "open"}
Delays == {1, 2, 4, 8, 10}

SocketInit ==
    /\ line = [l \in Lines |-> "unborn"]
    /\ ws = NoLine /\ retrying = FALSE /\ delay = 1
    /\ leaving = FALSE /\ service = FALSE

\* The service has a socket that is open or about to be
Up == \E l \in Lines : l = ws /\ line[l] \in Live

\* connect() on a service that has a socket, or on one that needs a new one
Dial ==
    \/ /\ Up
       /\ UNCHANGED <<line, ws>>
    \/ /\ ~Up
       /\ \E l \in Lines :
             /\ line[l] = "unborn" /\ \A k \in Lines : k < l => line[k] # "unborn"
             /\ line' = [line EXCEPT ![l] = "connecting"]
             /\ ws' = l

\* The store makes a service and connects it; a service is made only once
NewService ==
    /\ ~service
    /\ service' = TRUE /\ leaving' = FALSE /\ delay' = 1
    /\ Dial
    /\ UNCHANGED retrying

\* onopen, ignored on a socket that is no longer the service's
Opened(l) ==
    /\ line[l] = "connecting"
    /\ line' = [line EXCEPT ![l] = "open"]
    /\ delay' = IF ws = l THEN 1 ELSE delay
    /\ UNCHANGED <<ws, retrying, leaving, service>>

\* onerror
Failed(l) ==
    /\ line[l] \in Live
    /\ line' = [line EXCEPT ![l] = "closing"]
    /\ UNCHANGED <<ws, retrying, delay, leaving, service>>

\* onclose of the service's socket forgets it and, unless the page hung up,
\* sets the reconnect timer; onclose of an older socket changes nothing
Closed(l) ==
    /\ line[l] \in Live \cup {"closing"}
    /\ line' = [line EXCEPT ![l] = "closed"]
    /\ ws' = IF ws = l THEN NoLine ELSE ws
    /\ retrying' = (retrying \/ (ws = l /\ ~leaving))
    /\ UNCHANGED <<delay, leaving, service>>

Doubled(d) == IF 2 * d > 10 THEN 10 ELSE 2 * d

\* The reconnect timer fires
Redial ==
    /\ retrying
    /\ retrying' = FALSE
    /\ delay' = Doubled(delay)
    /\ leaving' = FALSE
    /\ Dial
    /\ UNCHANGED service

\* Broken variant: hanging up does not cancel the reconnect timer
HangUpKeepsTimer ==
    /\ service
    /\ leaving' = TRUE
    /\ line' = [l \in Lines |-> IF l = ws /\ line[l] \in Live THEN "closing" ELSE line[l]]
    /\ ws' = NoLine
    /\ service' = FALSE
    /\ UNCHANGED <<delay, retrying>>

\* disconnect(); the store then drops the service
SocketHangUp ==
    /\ service
    /\ leaving' = TRUE /\ retrying' = FALSE
    /\ line' = [l \in Lines |-> IF l = ws /\ line[l] \in Live THEN "closing" ELSE line[l]]
    /\ ws' = NoLine
    /\ service' = FALSE
    /\ UNCHANGED delay

\* The page is loaded again: its sockets are gone, without events
Unloaded ==
    /\ line' = [l \in Lines |-> IF line[l] = "unborn" THEN "unborn" ELSE "closed"]
    /\ ws' = NoLine /\ retrying' = FALSE /\ delay' = 1
    /\ leaving' = FALSE /\ service' = FALSE

SocketNext ==
    \/ NewService
    \/ \E l \in Lines : Opened(l) \/ Failed(l) \/ Closed(l)
    \/ Redial
    \/ SocketHangUp
    \/ Unloaded

SocketSpec == SocketInit /\ [][SocketNext]_socketVars

-----------------------------------------------------------------------------
SocketTypeOK ==
    /\ line \in [Lines -> SocketStates]
    /\ ws \in Lines \cup {NoLine}
    /\ retrying \in BOOLEAN /\ leaving \in BOOLEAN /\ service \in BOOLEAN
    /\ delay \in Delays

\* Whatever closes, errs, reconnects or is left in whatever order, at most one
\* socket of this page is up, and it is the one the service sends on: a second
\* one would answer the server twice and keep a seat nobody sees (connect's
\* early return, onclose's "this.ws !== socket").
OneLine == \A l \in Lines : line[l] \in Live => l = ws

\* A page that uses its service always has a socket whose end it will hear of,
\* or a timer that opens the next; a page that hung up has neither, so no late
\* timer brings back a seat that was left (onclose, scheduleReconnect,
\* disconnect).
NeverStranded ==
    IF service THEN (ws = NoLine) = retrying
               ELSE ws = NoLine /\ ~retrying
=============================================================================
