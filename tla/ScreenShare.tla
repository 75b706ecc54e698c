----------------------------- MODULE ScreenShare -----------------------------
(***************************************************************************)
(* The screen of a phone shown to an administrator: his request, the       *)
(* driver's answer, the images and the ends.  Each handler of              *)
(* ScreenShareService reads the row of the share, then writes it whatever  *)
(* it has become; the phone and the panel hold copies that answers and     *)
(* events replace.  Events of the live feed are heard at once.             *)
(***************************************************************************)
EXTENDS Integers, FiniteSets

CONSTANTS
    Viewers,        \* the administrators, each with the panel of the phone
    MaxShares,      \* bound of the shares requested
    MaxCalls,       \* bound of the calls under way
    MaxHour,        \* bound of time
    AnswerTime,     \* SCREEN_SHARE_RESPONSE_TIMEOUT_SECONDS
    ShareTime       \* SCREEN_SHARE_MAX_DURATION_SECONDS

ASSUME ShareAssumption ==
    /\ MaxShares \in Nat /\ MaxCalls \in Nat /\ MaxHour \in Nat
    /\ AnswerTime \in Nat /\ ShareTime \in Nat

VARIABLES
    hour,       \* the clocks of the server and of the phone
    shares,     \* screen_share_sessions, in the order of requestedAt
    calls,      \* handlers that have read, answers on their way
    snapshot,   \* ScreenShareCoordinator
    capture,    \* the dialog of the system, then the capture service
    panels      \* ScreenSharePanel: the share, its state, the image

shareVars == <<hour, shares, calls, snapshot, capture, panels>>

Shares == 1..MaxShares
NoTime == MaxHour + 1
LiveStates == {"REQUESTED", "ACCEPTED"}
EndStates == {"REFUSED", "ENDED_BY_DRIVER", "ENDED_BY_ADMIN", "EXPIRED", "FAILED"}
NoShare == [share |-> 0, state |-> "none", until |-> 0]
NoFrame == [share |-> 0, at |-> 0]
Hours == 0..(MaxHour + AnswerTime + ShareTime)

View == [share : Shares, state : LiveStates \cup EndStates, until : Hours]

Row == [state : {"none"} \cup LiveStates \cup EndStates, until : Hours,
        by : Viewers \cup {"none"}, startedAt : 0..NoTime]
Panel == [share : {0} \cup Shares, state : {"none"} \cup LiveStates \cup EndStates,
          frame : [share : {0} \cup Shares, at : 0..MaxHour]]
ShareCalls ==
    [op : {"create"}, by : Viewers]
    \cup [op : {"expire"}, share : Shares, by : Viewers \cup {"phone"}]
    \cup [op : {"write"}, share : Shares, to : LiveStates \cup EndStates,
          by : Viewers \cup {"phone"}]
    \cup [op : {"relay"}, share : Shares, at : 0..MaxHour]
    \cup [op : {"tell"}, view : View \cup {NoShare}]
    \cup [op : {"show"}, share : Shares, state : LiveStates \cup EndStates, to : Viewers]

ShareTypeOK ==
    /\ hour \in 0..MaxHour
    /\ shares \in [Shares -> Row]
    /\ snapshot \in View \cup {NoShare}
    /\ capture \in {"off", "dialog", "on"}
    /\ panels \in [Viewers -> Panel]
    /\ calls \subseteq ShareCalls

ShareInit ==
    /\ hour = 0
    /\ shares = [s \in Shares |-> [state |-> "none", until |-> 0, by |-> "none", startedAt |-> NoTime]]
    /\ calls = {} /\ snapshot = NoShare /\ capture = "off"
    /\ panels = [a \in Viewers |-> [share |-> 0, state |-> "none", frame |-> NoFrame]]

ViewOf(s) == [share |-> s, state |-> shares'[s].state, until |-> shares'[s].until]
NowViewOf(s) == [share |-> s, state |-> shares[s].state, until |-> shares[s].until]

\* findOngoing: the last of the live rows.
LiveShares == {s \in Shares : shares[s].state \in LiveStates}
Candidate == CHOOSE s \in LiveShares : \A t \in LiveShares : t <= s

\* Shares that were requested or will be.
Requested ==
    Cardinality({s \in Shares : shares[s].state # "none"})
    + Cardinality({c \in calls : c.op \in {"create", "expire"} /\ c.by # "phone"})

CanCall == Cardinality(calls) < MaxCalls

-----------------------------------------------------------------------------
(* ScreenShareService *)

\* transition: the state an event leads to, or none.
After(state, event) ==
    IF \/ state \notin LiveStates
       \/ event \in {"ACCEPTED", "REFUSED"} /\ state # "REQUESTED"
       \/ event = "ENDED_BY_DRIVER" /\ state # "ACCEPTED"
    THEN "none" ELSE event

\* broadcast: the panels that show the share follow; an end takes the image away.
Broadcast(s, state) ==
    panels' = [a \in Viewers |->
        IF panels[a].share # s THEN panels[a]
        ELSE [panels[a] EXCEPT !.state = state,
                               !.frame = IF state \in LiveStates THEN @ ELSE NoFrame]]

\* request: a live share refuses it, one that is overdue is closed first.  Bound: MaxShares.
Ask(a) ==
    /\ CanCall /\ Requested < MaxShares
    /\ panels[a].state \notin LiveStates
    /\ \A c \in calls : /\ c.op \in {"create", "expire"} => c.by # a
                       /\ c.op = "show" => c.to # a
    /\ LiveShares # {} => hour >= shares[Candidate].until
    /\ calls' = calls \cup {IF LiveShares = {} THEN [op |-> "create", by |-> a]
                            ELSE [op |-> "expire", share |-> Candidate, by |-> a]}
    /\ UNCHANGED <<hour, shares, snapshot, capture, panels>>

\* refresh: the row is closed; the request goes on, the phone is told that there is nothing.
CloseOverdue(c) ==
    /\ c.op = "expire"
    /\ shares' = [shares EXCEPT ![c.share].state = "EXPIRED"]
    /\ Broadcast(c.share, "EXPIRED")
    /\ calls' = (calls \ {c}) \cup {IF c.by = "phone" THEN [op |-> "tell", view |-> NoShare]
                                    ELSE [op |-> "create", by |-> c.by]}
    /\ UNCHANGED <<hour, snapshot, capture>>

\* The row and the command of the phone.
CreateShare(c) ==
    /\ c.op = "create"
    /\ \E s \in Shares :
        /\ shares[s].state = "none" /\ \A t \in Shares : t < s => shares[t].state # "none"
        /\ shares' = [shares EXCEPT ![s] = [state |-> "REQUESTED", until |-> hour + AnswerTime,
                                            by |-> c.by, startedAt |-> NoTime]]
        /\ calls' = (calls \ {c}) \cup {[op |-> "show", share |-> s, state |-> "REQUESTED", to |-> c.by]}
    /\ UNCHANGED <<hour, snapshot, capture, panels>>

\* A handler that ends or answers a share: the row is read, the event judged.
Judged(s, event, by, refusal) ==
    calls' = calls \cup
        IF After(shares[s].state, event) = "none" THEN refusal
        ELSE {[op |-> "write", share |-> s, to |-> event, by |-> by]}

\* Mutant: the deadline of the answer is prolonged.
WriteProlonged(c) ==
    /\ c.op = "write"
    /\ shares' = [shares EXCEPT ![c.share] =
           IF c.to = "ACCEPTED"
           THEN [@ EXCEPT !.state = c.to, !.startedAt = hour, !.until = @ + ShareTime]
           ELSE [@ EXCEPT !.state = c.to]]
    /\ Broadcast(c.share, c.to)
    /\ calls' = (calls \ {c}) \cup
           {IF c.by # "phone" THEN [op |-> "show", share |-> c.share, state |-> c.to, to |-> c.by]
            ELSE [op |-> "tell", view |-> IF c.to = "ACCEPTED" THEN ViewOf(c.share) ELSE NoShare]}
    /\ UNCHANGED <<hour, snapshot, capture>>

\* recordConsent and end write what they judged; an agreement replaces the deadline.
Write(c) ==
    /\ c.op = "write"
    /\ shares' = [shares EXCEPT ![c.share] =
           IF c.to = "ACCEPTED"
           THEN [@ EXCEPT !.state = c.to, !.startedAt = hour, !.until = hour + ShareTime]
           ELSE [@ EXCEPT !.state = c.to]]
    /\ Broadcast(c.share, c.to)
    /\ calls' = (calls \ {c}) \cup
           {IF c.by # "phone" THEN [op |-> "show", share |-> c.share, state |-> c.to, to |-> c.by]
            ELSE [op |-> "tell", view |-> IF c.to = "ACCEPTED" THEN ViewOf(c.share) ELSE NoShare]}
    /\ UNCHANGED <<hour, snapshot, capture>>

\* acceptsFrames
TakesFrames(s) == shares[s].state = "ACCEPTED" /\ hour < shares[s].until

\* The image goes to the administrator who asked; his panel takes those of its share.
Relay(c) ==
    /\ c.op = "relay" /\ calls' = calls \ {c}
    /\ panels' = [a \in Viewers |->
           IF a = shares[c.share].by /\ panels[a].share = c.share
           THEN [panels[a] EXCEPT !.frame = [share |-> c.share, at |-> c.at]] ELSE panels[a]]
    /\ UNCHANGED <<hour, shares, snapshot, capture>>

-----------------------------------------------------------------------------
(* The phone: ScreenShareCoordinator and ScreenCaptureService *)

\* currentScreenShare: at start, for a command, or after an answer that was refused.
Current ==
    IF LiveShares = {} THEN [op |-> "tell", view |-> NoShare]
    ELSE IF hour < shares[Candidate].until THEN [op |-> "tell", view |-> NowViewOf(Candidate)]
    ELSE [op |-> "expire", share |-> Candidate, by |-> "phone"]

RefreshShare ==
    /\ CanCall /\ calls' = calls \cup {Current}
    /\ UNCHANGED <<hour, shares, snapshot, capture, panels>>

\* The driver answers the question he is asked.
Respond(answer) ==
    /\ CanCall /\ snapshot.state = "REQUESTED" /\ hour < snapshot.until
    /\ Judged(snapshot.share, answer, "phone", {Current})
    /\ UNCHANGED <<hour, shares, snapshot, capture, panels>>

\* apply: an answer replaces the snapshot; an agreement opens the dialog of the system.
Hear(c) ==
    /\ c.op = "tell" /\ calls' = calls \ {c}
    /\ snapshot' = IF c.view.state \in LiveStates THEN c.view ELSE NoShare
    /\ capture' = IF snapshot.state = "REQUESTED" /\ c.view.state = "ACCEPTED" /\ capture = "off"
                  THEN "dialog" ELSE capture
    /\ UNCHANGED <<hour, shares, panels>>

Confirm ==
    /\ capture = "dialog" /\ capture' = "on"
    /\ UNCHANGED <<hour, shares, calls, snapshot, panels>>

\* captureFailed: the dialog is declined, or the service does not start.
CaptureFailed ==
    /\ CanCall /\ capture = "dialog" /\ capture' = "off"
    /\ snapshot' = NoShare
    /\ IF snapshot.share = 0 THEN UNCHANGED calls ELSE Judged(snapshot.share, "FAILED", "phone", {})
    /\ UNCHANGED <<hour, shares, panels>>

\* The driver stops: the snapshot is emptied when the call has returned.
DriverStops ==
    /\ CanCall /\ snapshot.state = "ACCEPTED"
    /\ Judged(snapshot.share, "ENDED_BY_DRIVER", "phone", {[op |-> "tell", view |-> NoShare]})
    /\ UNCHANGED <<hour, shares, snapshot, capture, panels>>

\* The call fails, or ends with the service that made it.
DriverStopsAlone ==
    /\ snapshot.state = "ACCEPTED" /\ snapshot' = NoShare
    /\ UNCHANGED <<hour, shares, calls, capture, panels>>

\* shouldCapture, before each image; a refusal empties the snapshot.
Grab ==
    /\ CanCall /\ capture = "on" /\ snapshot.state = "ACCEPTED" /\ hour < snapshot.until
    /\ calls' = calls \cup {IF TakesFrames(snapshot.share)
                            THEN [op |-> "relay", share |-> snapshot.share, at |-> hour]
                            ELSE [op |-> "tell", view |-> NoShare]}
    /\ UNCHANGED <<hour, shares, snapshot, capture, panels>>

EndCapture ==
    /\ capture = "on" /\ ~(snapshot.state = "ACCEPTED" /\ hour < snapshot.until)
    /\ capture' = "off"
    /\ UNCHANGED <<hour, shares, calls, snapshot, panels>>

LoseTell(c) ==
    /\ c.op = "tell" /\ calls' = calls \ {c}
    /\ UNCHANGED <<hour, shares, snapshot, capture, panels>>

-----------------------------------------------------------------------------
(* The panel *)

ShowShare(c) ==
    /\ c.op = "show" /\ calls' = calls \ {c}
    /\ panels' = [panels EXCEPT ![c.to] = [share |-> c.share, state |-> c.state, frame |-> NoFrame]]
    /\ UNCHANGED <<hour, shares, snapshot, capture>>

AdminStops(a) ==
    /\ CanCall /\ panels[a].state \in LiveStates
    /\ LET s == panels[a].share IN
       Judged(s, "ENDED_BY_ADMIN", a, {[op |-> "show", share |-> s, state |-> shares[s].state, to |-> a]})
    /\ UNCHANGED <<hour, shares, snapshot, capture, panels>>

\* Bound: MaxHour.
ShareClock ==
    /\ hour < MaxHour /\ hour' = hour + 1
    /\ UNCHANGED <<shares, calls, snapshot, capture, panels>>

-----------------------------------------------------------------------------

ShareNext ==
    \/ \E a \in Viewers : Ask(a) \/ AdminStops(a)
    \/ \E c \in calls : CloseOverdue(c) \/ CreateShare(c) \/ Write(c) \/ Relay(c)
                     \/ Hear(c) \/ LoseTell(c) \/ ShowShare(c)
    \/ RefreshShare \/ \E answer \in {"ACCEPTED", "REFUSED"} : Respond(answer)
    \/ Confirm \/ CaptureFailed \/ DriverStops \/ DriverStopsAlone \/ Grab \/ EndCapture
    \/ ShareClock

ShareSpec == ShareInit /\ [][ShareNext]_shareVars

-----------------------------------------------------------------------------
(* Properties *)

\* "Aucune image sans accord" and "L'échéance est REMPLACÉE, pas prolongée": an image that
\* is shown was taken for a share the driver agreed to, and no later than the duration of
\* a share after his agreement was recorded.
SeenAsAgreed ==
    \A a \in Viewers : LET f == panels[a].frame IN
        f.share # 0 => /\ shares[f.share].startedAt # NoTime
                       /\ f.at < shares[f.share].startedAt + ShareTime

\* The phone that loses the network captures no longer either.
CapturedAsAgreed ==
    snapshot.state = "ACCEPTED" =>
        /\ shares[snapshot.share].startedAt # NoTime
        /\ snapshot.until <= shares[snapshot.share].startedAt + ShareTime

\* "Une image d'une autre séance n'a rien à faire ici": a panel shows images of its own
\* share, and of a share its administrator asked for.
ShownToWhoAsked ==
    \A a \in Viewers : LET f == panels[a].frame IN
        f.share # 0 => f.share = panels[a].share /\ shares[f.share].by = a

\* The driver agreed to the share, whose duration reaches at least until this hour.
AgreedUntil(s, until) ==
    shares[s].startedAt # NoTime /\ until <= shares[s].startedAt + ShareTime

\* What is written and what is on its way stands for an agreement: the accepted row, the
\* image on its way to the panel, the answer on its way to the phone; and a panel shows a
\* share that was requested.
WritingsAgree ==
    /\ \A s \in Shares :
           /\ shares[s].startedAt # NoTime => shares[s].startedAt <= hour
                                              /\ shares[s].state # "none"
           /\ shares[s].state = "ACCEPTED" => AgreedUntil(s, shares[s].until)
    /\ \A c \in calls :
           /\ c.op = "relay" => AgreedUntil(c.share, c.at + 1)
           /\ c.op = "tell" /\ c.view.state = "ACCEPTED" => AgreedUntil(c.view.share, c.view.until)
           /\ c.op = "show" => shares[c.share].state # "none"
    /\ \A a \in Viewers : panels[a].state # "none" =>
           panels[a].share # 0 /\ shares[panels[a].share].state # "none"

\* A screen is captured and seen only as the driver agreed, by who asked.
ShareInv ==
    ShareTypeOK /\ WritingsAgree /\ SeenAsAgreed /\ CapturedAsAgreed /\ ShownToWhoAsked

-----------------------------------------------------------------------------
(* Expected of the code, and not held by it *)

\* "Un état terminal est définitif": an answer read before an end is written after it.
TerminalIsFinal ==
    [][\A s \in Shares : shares[s].state \in EndStates => shares'[s].state \in EndStates]_shareVars

\* "répondre à une demande expirée est refusé": the deadline of the answer is not compared.
ConsentInTime ==
    [][\A s \in Shares : shares[s].state = "REQUESTED" /\ shares'[s].state = "ACCEPTED"
           => hour < shares[s].until]_shareVars

\* "Une seule séance vivante par téléphone".
OneLiveShare == Cardinality(LiveShares) <= 1

\* "Ni avant la réponse du chauffeur, ni après la fin": an image judged before the end
\* reaches the panel after it.
NothingShownAfterEnd ==
    \A a \in Viewers : panels[a].state \in EndStates => panels[a].frame = NoFrame
=============================================================================
