----------------------------- MODULE OwnerByUsb -----------------------------
(***************************************************************************)
(* The other way to put a phone into service, from the bench: the tool     *)
(* looks at what adb sees, refuses unless the phone is as Android wants    *)
(* it, then asks for the role of Device Owner.  People plug and unplug     *)
(* phones, and use them, between the two.                                  *)
(***************************************************************************)
EXTENDS Naturals, FiniteSets

CONSTANTS
    Handhelds,      \* serial numbers
    MaxHandling     \* bound of what people do meanwhile

VARIABLES
    bench,      \* the state adb gives each phone, "away" when it is not plugged
    inside,     \* of each phone: its accounts, whether it has the application, its owner
    usb,        \* the command that runs
    roles,      \* the requests for the role, with what the tool had seen
    gestures

usbVars == <<bench, inside, usb, roles, gestures>>

ASSUME BenchAssumption == IsFiniteSet(Handhelds) /\ MaxHandling \in Nat

States == {"device", "unauthorized", "away"}
Insides == [account : BOOLEAN, installed : BOOLEAN, owner : {"none", "ours", "other"}]
None == "none"
Targets == Handhelds \cup {None}
Resting == [pc |-> "idle"]
Unseen == [account |-> FALSE, installed |-> FALSE, owner |-> "none"]

UsbTypeOK ==
    /\ bench \in [Handhelds -> States] /\ inside \in [Handhelds -> Insides]
    /\ usb \in {Resting} \cup
           [pc : {"checked"}, serial : Targets, target : Targets, seen : Insides,
            devices : [Handhelds -> States]]
    /\ roles \subseteq [phone : Handhelds, target : Handhelds, seen : Insides,
                   now : Insides]
    /\ gestures \in 0..MaxHandling

UsbInit ==
    /\ bench \in [Handhelds -> States]
    /\ inside \in [Handhelds -> [account : BOOLEAN, installed : BOOLEAN, owner : {"none", "other"}]]
    /\ usb = Resting /\ roles = {} /\ gestures = 0

UsableByUsb(devices) == {h \in Handhelds : devices[h] = "device"}
Only(s) == CHOOSE h \in s : TRUE

\* The phone that is examined: the one named, or the only one.
TargetOf(serial, devices) ==
    IF serial # None THEN serial
    ELSE IF Cardinality(UsableByUsb(devices)) = 1 THEN Only(UsableByUsb(devices)) ELSE None

\* analyzePreconditions, of what was seen: nothing of a phone that does not answer.
Blocking(u) ==
    \/ \E h \in Handhelds : u.devices[h] = "unauthorized"
    \/ u.target = None \/ u.target \notin UsableByUsb(u.devices)
    \/ ~u.seen.installed \/ u.seen.account \/ u.seen.owner # "none"

\* inspectDevice: the list, then the questions to the phone.
InspectDevice(serial) ==
    /\ usb = Resting
    /\ LET target == TargetOf(serial, bench) IN
       usb' = [pc |-> "checked", serial |-> serial, target |-> target, devices |-> bench,
               seen |-> IF target # None /\ bench[target] = "device" THEN inside[target] ELSE Unseen]
    /\ UNCHANGED <<bench, inside, roles, gestures>>

RefuseUnit ==
    /\ usb.pc = "checked" /\ Blocking(usb)
    /\ usb' = Resting
    /\ UNCHANGED <<bench, inside, roles, gestures>>

\* The phone adb talks to: the one named, or the only one; none otherwise.
Reached(serial) ==
    IF serial = None
    THEN IF Cardinality({h \in Handhelds : bench[h] # "away"}) = 1 THEN UsableByUsb(bench) ELSE {}
    ELSE {serial} \cap UsableByUsb(bench)

\* dpm: Android has the last word on its own state.
Dpm(h) ==
    /\ roles' = roles \cup {[phone |-> h, target |-> usb.target, seen |-> usb.seen,
                                 now |-> inside[h]]}
    /\ inside' = IF inside[h].installed /\ ~inside[h].account /\ inside[h].owner = "none"
                 THEN [inside EXCEPT ![h].owner = "ours"] ELSE inside

\* setDeviceOwner, with the serial number of the phone that was examined.
SetDeviceOwner ==
    /\ usb.pc = "checked" /\ ~Blocking(usb)
    /\ usb' = Resting
    /\ \/ Reached(usb.target) = {} /\ UNCHANGED <<inside, roles>>
       \/ \E h \in Reached(usb.target) : Dpm(h)
    /\ UNCHANGED <<bench, gestures>>

\* Without --yes the tool shows the command and stops.
ShowCommand ==
    /\ usb.pc = "checked" /\ ~Blocking(usb)
    /\ usb' = Resting
    /\ UNCHANGED <<bench, inside, roles, gestures>>

\* Somebody plugs a phone, unplugs it, answers its question, adds an account, installs.
Handle(h) ==
    /\ gestures < MaxHandling
    /\ gestures' = gestures + 1
    /\ \/ /\ bench' \in [Handhelds -> States] /\ UNCHANGED inside
          /\ \A k \in Handhelds \ {h} : bench'[k] = bench[k]
       \/ inside' = [inside EXCEPT ![h].account = ~@] /\ UNCHANGED bench
       \/ inside' = [inside EXCEPT ![h].installed = TRUE] /\ UNCHANGED bench
    /\ UNCHANGED <<usb, roles>>

UsbNext ==
    \/ \E s \in Targets : InspectDevice(s)
    \/ RefuseUnit \/ SetDeviceOwner \/ ShowCommand
    \/ \E h \in Handhelds : Handle(h)

UsbSpec == UsbInit /\ [][UsbNext]_usbVars

-----------------------------------------------------------------------------
(* Properties *)

\* Whatever is plugged meanwhile, the role is asked of the phone that was examined and
\* found as Android wants it.
RoleOfTheExamined ==
    \A r \in roles : r.phone = r.target /\ r.seen = [account |-> FALSE, installed |-> TRUE, owner |-> "none"]

UsbInv == UsbTypeOK /\ RoleOfTheExamined

-----------------------------------------------------------------------------
(* Expected of the code, and not held by it *)

\* The conditions still hold when the role is asked: "nothing was attempted" otherwise.
RoleWhileFit == \A r \in roles : r.now = r.seen
=============================================================================
