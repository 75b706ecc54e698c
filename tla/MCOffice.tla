------------------------------ MODULE MCOffice ------------------------------
(***************************************************************************)
(* Model checking of what is kept for a company and shown to it: its       *)
(* invoices, what is erased after a time, the settings of a depot, the     *)
(* return of its phones, their last position, and the three ways a phone   *)
(* is put into service.  They share no state: a behaviour is one of them   *)
(* (scene), chosen at the start, and the variables of the others rest.     *)
(***************************************************************************)
EXTENDS Billing, Retention, Commissioning, FleetFile, OwnerByUsb,
        DepotReturn, DepotPage, LastPosition

CONSTANT k1

VARIABLE scene

Scenes == {"billing", "retention", "labels", "file", "usb",
           "return", "depot", "positions"}
officeVars == <<scene, billingVars, retentionVars, commissionVars, fileVars,
                usbVars, returnVars, depotPageVars, positionVars>>

\* The profiles whose campaign is run to its end; of the others the check is enough.
Good == [component |-> "ours", checksum |-> "sha256", download |-> "https",
         allowInsecure |-> FALSE, wifi |-> "WPA", wifiPassword |-> TRUE,
         server |-> "https", size |-> 900, level |-> "M"]
MCProfiles == {Good, [Good EXCEPT !.wifiPassword = FALSE], [Good EXCEPT !.size = 2600],
               [Good EXCEPT !.size = 2600, !.level = "L"]}

\* A part that rests starts in one state.
OfficeInit ==
    /\ scene \in Scenes
    /\ BillingInit
    /\ scene # "retention" => policy = [c \in Keepers |-> [k \in Kinds |-> 1]]
    /\ RetentionInit /\ firstName = k1 /\ \A c \in Keepers : policy[c]["fact"] = 1
    /\ scene # "usb" =>
           /\ bench = [h \in Handhelds |-> "away"]
           /\ inside = [h \in Handhelds |-> Unseen]
    /\ UsbInit
    /\ scene # "file" => table = [n \in 1 .. Lines + 1 |-> <<>>] /\ separator = ";"
    /\ IF scene = "file" THEN FileInit ELSE read = [done |-> FALSE, tags |-> <<>>]
    /\ ReturnInit /\ PositionInit
    /\ site = [f \in Fields |-> 1] /\ DepotPageInit
    /\ scene # "labels" => profile = Good /\ declared = {}
    /\ CommissionInit

PartsAtRest ==
    /\ scene # "billing" => UNCHANGED billingVars
    /\ scene # "retention" => UNCHANGED retentionVars
    /\ scene # "labels" => UNCHANGED commissionVars
    /\ scene # "file" => UNCHANGED fileVars
    /\ scene # "usb" => UNCHANGED usbVars
    /\ scene # "return" => UNCHANGED returnVars
    /\ scene # "depot" => UNCHANGED depotPageVars
    /\ scene # "positions" => UNCHANGED positionVars

\* Bounds: two positions at once or one event, taken in turn; one term for the events;
\* one company renamed, and the page used by day.
Few ==
    /\ night # Daytime => UNCHANGED <<firstName, settings>>
    /\ firstName # k1 => UNCHANGED firstName
    /\ Cardinality(rows') <= 2 /\ settings'.form["fact"] <= 1
    /\ (\E r \in rows' : r.id \in Facts) => Cardinality(rows') = 1
    /\ \A r \in rows' \ rows :
           r.id \in Tracks => r.id = (CHOOSE t \in Tracks : \A x \in rows : x.id # t)

OfficeNext ==
    /\ UNCHANGED scene
    /\ \/ scene = "billing" /\ BillingNext
       \/ scene = "retention" /\ RetentionNext /\ Few
       \/ scene = "labels" /\ profile \in MCProfiles /\ CommissionNext
       \/ scene = "file" /\ ReadFleet
       \/ scene = "usb" /\ UsbNext
       \/ scene = "return" /\ ReturnNext
       \/ scene = "depot" /\ DepotPageNext
       \/ scene = "positions" /\ PositionNext
    /\ PartsAtRest

OfficeSpec == OfficeInit /\ [][OfficeNext]_officeVars

\* What is kept of a company is right: its phones are there for its invoice, what is too
\* old is gone, the state of a session follows the transitions of its phone, the fence the
\* depot, the last position and the trace the points.
KeptInv == BillingInv /\ RetentionInv /\ ReturnInv /\ DepotPageInv /\ PositionInv

\* A phone is put into service as asked: by the labels of a campaign, or by cable.
InServiceInv == CommissionInv /\ UsbInv

\* What no step may do: erase before the term, or lose the token a session renewed.
OfficeSteps == NoneLostEarly /\ RotationKept

-----------------------------------------------------------------------------
(* A depot open from the first hour of its day, whose phones are due back at *)
(* the second.                                                               *)

OnDayOne(x) == [d \in -3..5 |-> IF d = 1 THEN x ELSE Absent]
MCTimetable ==
    [start |-> 0, returnTime |-> 1, lockTime |-> 1, weekday |-> OnDayOne(Absent),
     holiday |-> OnDayOne(Absent), special |-> OnDayOne(Absent)]

(* The forms of a fleet file *)

MCHeaders == {<<>>, <<"t">>, <<"u">>}
MCCells == {<<>>, <<"u">>, <<"t", "quote">>, <<"quote", ";">>, <<"u", "line", "t">>,
            <<"tab", "u">>}
=============================================================================
