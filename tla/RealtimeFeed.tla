---------------------------- MODULE RealtimeFeed ----------------------------
(***************************************************************************)
(* The live feed of the dashboard: a socket whose handshake carries an     *)
(* access token, the listeners of the pages, and a list of alerts a page   *)
(* has read and reads again when an event says that it changed.  Events    *)
(* carry no data the list uses, and those of a disconnection are not sent  *)
(* again.                                                                  *)
(***************************************************************************)
EXTENDS Integers

CONSTANTS
    MaxWrites,      \* bound of the changes of the alerts
    MaxWired        \* bound of the listeners of an event

VARIABLES
    saved,     \* the alerts in the database: how often they changed
    unsent,     \* changes whose event is still to be sent
    barredUser, \* the administrator was made inactive
    token,      \* the access token the page has read
    channel,       \* the socket
    panel,      \* the page that subscribes to an event is shown
    known,      \* listenersRef has an entry for the event
    wired,      \* listeners of the event on the socket
    view,       \* the change the list shows
    filled,     \* the query of the list has data
    reading,    \* the read of the list under way
    gap         \* history: since the server last read the list, an event had no effect:
                \* it was unheard, or it passed during the first read

feedVars == <<saved, unsent, barredUser, token, channel, panel, known, wired,
              view, filled, reading, gap>>

ASSUME FeedAssumption == MaxWrites \in Nat /\ MaxWired \in Nat \ {0}

NoRead == [pc |-> "none"]
More(n) == IF n < MaxWired THEN n + 1 ELSE n

FeedTypeOK ==
    /\ saved \in 0..MaxWrites /\ unsent \in 0..MaxWrites /\ view \in 0..MaxWrites
    /\ barredUser \in BOOLEAN /\ panel \in BOOLEAN /\ known \in BOOLEAN /\ filled \in BOOLEAN
    /\ gap \in {"none", "unheard", "passed"}
    /\ token \in {"none", "live", "old", "absent"}
    /\ channel \in {"none", "opening", "joined", "down", "closed"}
    /\ wired \in 0..MaxWired
    /\ reading \in {NoRead, [pc |-> "asked"]} \cup [pc : {"read"}, got : 0..MaxWrites]

FeedInit ==
    /\ saved = 0 /\ unsent = 0 /\ barredUser = FALSE
    /\ token = "none" /\ channel = "none"
    /\ panel = FALSE /\ known = FALSE /\ wired = 0
    /\ view = 0 /\ filled = FALSE /\ reading = [pc |-> "asked"] /\ gap = "none"

server == <<saved, unsent, barredUser>>
list == <<view, filled, reading, gap>>

-----------------------------------------------------------------------------
(* The server: the services write, then RealtimeService *)

\* An alert is created, acknowledged, resolved or closed.  Bound: MaxWrites.
Change ==
    /\ saved < MaxWrites
    /\ saved' = saved + 1 /\ unsent' = unsent + 1
    /\ UNCHANGED <<barredUser, token, channel, panel, known, wired, list>>

\* A page that subscribes does it anew when its context changes: the first
\* subscriber adds a listener.
Resubscribed == IF panel /\ channel # "none" THEN More(wired) ELSE wired

\* External (react-query): an invalidated query is read again, and the read under way
\* cancelled; but a query without data keeps its first read, and the event passes.
Invalidate ==
    IF filled \/ reading = NoRead
    THEN reading' = [pc |-> "asked"] /\ UNCHANGED gap
    ELSE /\ UNCHANGED reading
         /\ gap' = IF reading.pc = "read" /\ gap = "none" THEN "passed" ELSE gap

\* Mutant: invalidateQueries with cancelRefetch: false.
SendLazily(created) ==
    /\ unsent > 0 /\ unsent' = unsent - 1
    /\ IF channel = "joined"
       THEN /\ reading' = IF reading = NoRead THEN [pc |-> "asked"] ELSE reading
            /\ wired' = IF created THEN Resubscribed ELSE wired
            /\ UNCHANGED gap
       ELSE gap' = "unheard" /\ UNCHANGED <<reading, wired>>
    /\ UNCHANGED <<saved, barredUser, token, channel, panel, known, view, filled>>

\* emitToCompany: the sockets that are in the room hear it and invalidate the list; a
\* new alert changes the context too.
Publish(created) ==
    /\ unsent > 0 /\ unsent' = unsent - 1
    /\ IF channel = "joined"
       THEN Invalidate /\ wired' = IF created THEN Resubscribed ELSE wired
       ELSE gap' = "unheard" /\ UNCHANGED <<reading, wired>>
    /\ UNCHANGED <<saved, barredUser, token, channel, panel, known, view, filled>>

\* handleConnection: the token, then the account; a socket that is refused is closed
\* by the server, and does not come back.
Handshake ==
    /\ channel = "opening"
    /\ channel' = IF token = "live" /\ ~barredUser THEN "joined" ELSE "closed"
    /\ wired' = Resubscribed
    /\ UNCHANGED <<server, token, panel, known, list>>

Bar ==
    /\ ~barredUser /\ barredUser' = TRUE
    /\ UNCHANGED <<saved, unsent, token, channel, panel, known, wired, list>>

-----------------------------------------------------------------------------
(* The page: lib/realtime.tsx *)

\* The cookie of the access token may have run out: no feed.
ReadToken ==
    /\ channel = "none" /\ token = "none"
    /\ token' \in {"live", "absent"}
    /\ UNCHANGED <<server, channel, panel, known, wired, list>>

\* The socket is made once; the subscriptions made before it are wired.
Connect ==
    /\ channel = "none" /\ token \in {"live", "old"}
    /\ channel' = "opening"
    /\ wired' = IF known THEN 1 ELSE 0
    /\ UNCHANGED <<server, token, panel, known, list>>

\* The token was read once, and lives for fifteen minutes.
TokenRunsOut ==
    /\ token = "live" /\ token' = "old"
    /\ UNCHANGED <<server, channel, panel, known, wired, list>>

Cut ==
    /\ channel = "joined" /\ channel' = "down"
    /\ wired' = Resubscribed
    /\ UNCHANGED <<server, token, panel, known, list>>

\* The same socket, the same listeners, the same token.
Reconnect ==
    /\ channel = "down" /\ channel' = "opening"
    /\ UNCHANGED <<server, token, panel, known, wired, list>>

Subscribe ==
    /\ ~panel /\ panel' = TRUE /\ known' = TRUE
    /\ wired' = IF channel # "none" THEN More(wired) ELSE wired
    /\ UNCHANGED <<server, token, channel, list>>

\* The handler goes, the listener stays.
Unsubscribe ==
    /\ panel /\ panel' = FALSE
    /\ UNCHANGED <<server, token, channel, known, wired, list>>

\* The server answers the read of the list,
ReadList ==
    /\ reading.pc = "asked"
    /\ reading' = [pc |-> "read", got |-> saved] /\ gap' = "none"
    /\ UNCHANGED <<server, token, channel, panel, known, wired, view, filled>>

\* and the page shows it.
ShowList ==
    /\ reading.pc = "read"
    /\ view' = reading.got /\ reading' = NoRead /\ filled' = TRUE
    /\ UNCHANGED <<server, token, channel, panel, known, wired, gap>>

\* A filter that was not used yet: another query, without data.
Filter ==
    /\ filled' = FALSE /\ reading' = [pc |-> "asked"]
    /\ UNCHANGED <<server, token, channel, panel, known, wired, view, gap>>

Reload ==
    /\ token' = "none" /\ channel' = "none"
    /\ panel' = FALSE /\ known' = FALSE /\ wired' = 0
    /\ filled' = FALSE /\ reading' = [pc |-> "asked"]
    /\ UNCHANGED <<server, view, gap>>

-----------------------------------------------------------------------------

FeedNext ==
    \/ Change \/ Handshake \/ Bar
    \/ \E created \in BOOLEAN : Publish(created)
    \/ ReadToken \/ Connect \/ TokenRunsOut \/ Cut \/ Reconnect
    \/ Subscribe \/ Unsubscribe \/ ReadList \/ ShowList \/ Filter \/ Reload

FeedSpec == FeedInit /\ [][FeedNext]_feedVars

-----------------------------------------------------------------------------
(* Properties *)

\* When every event was sent, none was unheard since the list was last read, and no read
\* is under way, the list shows the alerts as they are, though events arrived in the
\* middle of a read; an event that passes during a first read is the exception.
ListFollows ==
    unsent = 0 /\ reading = NoRead /\ gap = "none" => view = saved

\* "L'abonnement survit aux reconnexions": a page that is shown hears the event it
\* subscribed to, whether before the socket or after, and after a reconnection.
PanelIsWired == panel /\ channel = "joined" => wired > 0

\* What is read follows the last change whose event was heard; a page that is shown has
\* its listener as soon as there is a socket.
ReadsAgree ==
    /\ unsent <= saved
    /\ unsent = 0 /\ reading.pc = "read" /\ gap = "none" => reading.got = saved
    /\ reading = NoRead => filled
PanelsAgree == panel => known /\ (channel # "none" => wired > 0)

FeedInv == FeedTypeOK /\ ReadsAgree /\ PanelsAgree /\ ListFollows /\ PanelIsWired

-----------------------------------------------------------------------------
(* Expected of the code, and not held by it *)

\* "Les vues concernées se rafraîchissent d'elles-mêmes": what was heard is shown.
HeardIsShown ==
    unsent = 0 /\ reading = NoRead /\ gap # "unheard" => view = saved

\* "seulement pour le premier abonné de cet événement — sans quoi chaque abonnement
\* ajouterait un écouteur qui rejouerait tous les autres": the listener of a page that
\* has gone stays, and the next subscription adds one.
WiredOnce == wired <= 1

\* "un administrateur désactivé ne doit pas conserver un flux ouvert".
BarredHearsNothing == barredUser => channel # "joined"
=============================================================================
