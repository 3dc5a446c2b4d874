-------------------------------- MODULE Cable --------------------------------
(***************************************************************************)
(* What wakes the fetch loop: the websocket (internal/cable/cable.go,      *)
(* Listen), watchCable and listenCable, the channel fetchSignal, and the   *)
(* timer of fetchLoop (internal/daemon/daemon.go).  Intake has what a      *)
(* fetch does, and wakes at any time; this module is about when.           *)
(*                                                                         *)
(* Fizzy sends a broadcast for each notification to the connections that   *)
(* are subscribed at that moment.  Messages wait on the wire, and are lost *)
(* with a connection that breaks, which the client sees only later.        *)
(*                                                                         *)
(* Left out: the times of the timer and of the backoff, and the end of the *)
(* daemon.                                                                 *)
(***************************************************************************)
EXTENDS Naturals, Sequences

CONSTANT MaxWire   \* bound of the model: messages on the wire

VARIABLES
  news,          \* there is a notification that no fetch listed
  login,         \* the session cookie: "none", "good" or "bad"
  conn,          \* Listen: where it is
  link,          \* the connection works in both directions
  subscribed,    \* Fizzy sends the broadcasts to this connection
  wire,          \* the messages to the client
  connected,     \* cableConnected
  signal,        \* the one place of fetchSignal is taken
  fetching       \* fetchLoop, and whether its last fetch failed

cableVars == <<news, login, conn, link, subscribed, wire, connected, signal, fetching>>
server == <<news, login>>
socketVars == <<conn, link, subscribed, wire>>

Messages == {"welcome", "confirm", "broadcast"}

TypeOK ==
  /\ {news, link, subscribed, connected, signal} \subseteq BOOLEAN
  /\ login \in {"none", "good", "bad"}
  /\ conn \in {"off", "asks", "open", "subscribes", "ready", "ended"}
  /\ wire \in Seq(Messages) /\ Len(wire) <= MaxWire
  /\ fetching.at \in {"lists", "handles", "polls", "waits"} /\ fetching.failed \in BOOLEAN

Init ==
  /\ news = FALSE /\ login = "none"
  /\ conn = "off" /\ link = FALSE /\ subscribed = FALSE /\ wire = <<>>
  /\ connected = FALSE /\ signal = FALSE
  /\ fetching = [at |-> "lists", failed |-> FALSE]

-----------------------------------------------------------------------------
(* Fizzy and the network *)

Transmit(message) == wire' = Append(wire, message)

Notify ==
  /\ Len(wire) < MaxWire
  /\ news' = TRUE
  /\ IF link /\ subscribed THEN Transmit("broadcast") ELSE UNCHANGED wire
  /\ UNCHANGED <<login, conn, link, subscribed, connected, signal, fetching>>

Welcome ==
  /\ link /\ conn = "open" /\ wire = <<>> /\ ~subscribed
  /\ Transmit("welcome")
  /\ UNCHANGED <<server, conn, link, subscribed, connected, signal, fetching>>

\* Broadcasts can go out before the confirmation.
Subscribe ==
  /\ link /\ conn = "subscribes" /\ ~subscribed
  /\ subscribed' = TRUE
  /\ UNCHANGED <<server, conn, link, wire, connected, signal, fetching>>

Confirm ==
  /\ link /\ conn = "subscribes" /\ subscribed
  /\ Len(wire) < MaxWire
  /\ \A k \in DOMAIN wire : wire[k] # "confirm"
  /\ Transmit("confirm")
  /\ UNCHANGED <<server, conn, link, subscribed, connected, signal, fetching>>

\* The connection breaks, and what is on the wire is lost; or Fizzy takes the
\* cookie back, which ends it too.
Break(cookie) ==
  /\ link
  /\ link' = FALSE /\ subscribed' = FALSE /\ wire' = <<>>
  /\ login' = cookie
  /\ UNCHANGED <<news, conn, connected, signal, fetching>>

\* `fizzy-connector login` saves a new cookie.
LogIn ==
  /\ login # "good"
  /\ login' = "good"
  /\ UNCHANGED <<news, socketVars, connected, signal, fetching>>

-----------------------------------------------------------------------------
(* watchCable, listenCable and Listen *)

\* signalFetch: a signal that is not taken yet is enough.  A mutant: the loop
\* gets only what comes while it waits.
OnlyWhileItWaits == signal \/ fetching.at \in {"polls", "waits"}
SignalFetch == TRUE

\* The cookie is read from its file at each try.
AskStream ==
  /\ conn = "off" /\ login # "none"
  /\ conn' = "asks"
  /\ UNCHANGED <<server, link, subscribed, wire, connected, signal, fetching>>

\* NotificationStreamName, with the cookie, and then the connection.
CookieAccepted == login = "good"

Dial ==
  /\ conn = "asks" /\ CookieAccepted
  /\ conn' = "open" /\ link' = TRUE
  /\ UNCHANGED <<server, subscribed, wire, connected, signal, fetching>>

ReadWelcome ==
  /\ conn = "open" /\ wire # <<>> /\ Head(wire) = "welcome"
  /\ conn' = "subscribes" /\ wire' = Tail(wire)
  /\ UNCHANGED <<server, link, subscribed, connected, signal, fetching>>

\* onReady.  A mutant: it does not signal, and the news of the time before
\* waits for the timer.
NoSignal == signal
OnReadySignals == SignalFetch

ReadConfirm ==
  /\ wire # <<>> /\ Head(wire) = "confirm"
  /\ conn' = "ready" /\ wire' = Tail(wire)
  /\ connected' = TRUE
  /\ signal' = OnReadySignals
  /\ UNCHANGED <<server, link, subscribed, fetching>>

ReadBroadcast ==
  /\ wire # <<>> /\ Head(wire) = "broadcast"
  /\ wire' = Tail(wire)
  /\ signal' = SignalFetch
  /\ UNCHANGED <<server, conn, link, subscribed, connected, fetching>>

\* Listen returns: Fizzy did not accept the cookie, rejected, disconnected or
\* did not answer, or nothing arrived for staleAfter.
ListenEnds ==
  /\ conn \notin {"off", "ended"}
  /\ conn' = "ended" /\ link' = FALSE /\ subscribed' = FALSE /\ wire' = <<>>
  /\ UNCHANGED <<server, connected, signal, fetching>>

\* watchCable notes it and waits for the backoff.
Disconnected ==
  /\ conn = "ended"
  /\ conn' = "off"
  /\ connected' = FALSE
  /\ UNCHANGED <<server, link, subscribed, wire, signal, fetching>>

-----------------------------------------------------------------------------
(* fetchLoop *)

LoopAt(at, failed) == fetching' = [at |-> at, failed |-> failed]

List ==
  /\ fetching.at = "lists"
  /\ news' = FALSE
  /\ LoopAt("handles", FALSE)
  /\ UNCHANGED <<login, socketVars, connected, signal>>

ListFails ==
  /\ fetching.at = "lists"
  /\ LoopAt("handles", TRUE)
  /\ UNCHANGED <<server, socketVars, connected, signal>>

\* The interval is chosen here: poll_interval, or longer when connected.
BeginWait ==
  /\ fetching.at = "handles"
  /\ LoopAt(IF connected THEN "waits" ELSE "polls", fetching.failed)
  /\ UNCHANGED <<server, socketVars, connected, signal>>

TakeSignal ==
  /\ fetching.at \in {"polls", "waits"} /\ signal
  /\ signal' = FALSE
  /\ LoopAt("lists", FALSE)
  /\ UNCHANGED <<server, socketVars, connected>>

\* The timer runs also while connected.  A mutant: only without it.
TimerWithoutCable == {"polls"}
TimerRuns == {"polls", "waits"}

Timer ==
  /\ fetching.at \in TimerRuns
  /\ LoopAt("lists", FALSE)
  /\ UNCHANGED <<server, socketVars, connected, signal>>

-----------------------------------------------------------------------------

Next ==
  \/ Notify \/ Welcome \/ Subscribe \/ Confirm \/ LogIn
  \/ \E cookie \in {login, "bad"} : Break(cookie)
  \/ AskStream \/ Dial \/ ReadWelcome \/ ReadConfirm \/ ReadBroadcast
  \/ ListenEnds \/ Disconnected
  \/ List \/ ListFails \/ BeginWait \/ TakeSignal \/ Timer

-----------------------------------------------------------------------------
(* Properties *)

Has(message) == \E k \in DOMAIN wire : wire[k] = message

\* Real time needs no timer: while the subscription works, a notification
\* that the loop has not listed has a broadcast on its way or a signal, or the
\* loop is about to list, whenever it came: before the connection, between the
\* subscription and its confirmation, or during a fetch.  Only a fetch that
\* failed leaves it to the timer (daemon.go, listenCable: "mentions arrive in
\* real time").
WakeupKept ==
  news /\ conn = "ready" /\ link /\ ~fetching.failed =>
    signal \/ fetching.at = "lists" \/ Has("broadcast")

\* However the connection fails, and with no login at all, each notification
\* is listed.
NewsIsFetched == news ~> ~news
=============================================================================
