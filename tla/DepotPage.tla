----------------------------- MODULE DepotPage -----------------------------
(***************************************************************************)
(* A depot and its geofence, changed by several administrators at once:    *)
(* the page of the depot fills its form once and sends all of it, other    *)
(* callers send a part; the server reads the depot, then changes row and   *)
(* geofence in one transaction.                                            *)
(***************************************************************************)
EXTENDS Naturals, FiniteSets

CONSTANTS
    Tabs,           \* administrators on the page, or callers of the API
    Values,         \* values of a field
    MaxTyped        \* bound of the edits

VARIABLES
    site,       \* depots: the committed row
    fence,      \* geofences: the geometry of the depot, committed
    holder,     \* the transaction that holds the row
    draft,      \* what it has written and not committed
    tab,        \* of each page: the form, the request under way
    typed

depotPageVars == <<site, fence, holder, draft, tab, typed>>


\* Position, radius with its margin, and the hours and the name together.
Fields == {"place", "radius", "hours"}
Geometry == {"place", "radius"}
NoTab == "none"

ASSUME DepotPageAssumption ==
    IsFiniteSet(Tabs) /\ NoTab \notin Tabs /\ Values # {} /\ MaxTyped \in Nat

Sites == [Fields -> Values]
Shut == [pc |-> "shut"]
Fence(s) == [f \in Geometry |-> s[f]]

Bodies == UNION {[some -> Values] : some \in SUBSET Fields}
TabStates ==
    {Shut} \cup [pc : {"form"}, form : Sites, base : Sites]
    \cup [pc : {"sent"}, form : Sites, base : Sites, body : Bodies]
    \cup [pc : {"read", "row", "fence"}, form : Sites, base : Sites, body : Bodies, before : Sites]

DepotPageTypeOK ==
    /\ site \in Sites /\ fence \in [Geometry -> Values]
    /\ holder \in Tabs \cup {NoTab}
    /\ draft \in [row : Sites, fence : [Geometry -> Values]]
    /\ tab \in [Tabs -> TabStates]
    /\ typed \in 0..MaxTyped

DepotPageInit ==
    /\ site \in Sites /\ fence = Fence(site)
    /\ holder = NoTab /\ draft = [row |-> site, fence |-> fence]
    /\ tab = [t \in Tabs |-> Shut] /\ typed = 0

-----------------------------------------------------------------------------
(* depots/[id]/page.tsx *)

\* The first data fill the form; the next ones do not.
OpenPage(t) ==
    /\ tab[t].pc = "shut"
    /\ tab' = [tab EXCEPT ![t] = [pc |-> "form", form |-> site, base |-> site]]
    /\ UNCHANGED <<site, fence, holder, draft, typed>>

\* A field of the form, whatever is under way.  Bound: MaxTyped.
Type(t, f, v) ==
    /\ tab[t].pc # "shut" /\ typed < MaxTyped
    /\ tab' = [tab EXCEPT ![t].form[f] = v]
    /\ typed' = typed + 1
    /\ UNCHANGED <<site, fence, holder, draft>>

Send(t, body) ==
    /\ tab[t].pc = "form"
    /\ tab' = [tab EXCEPT ![t] = [pc |-> "sent", form |-> tab[t].form, base |-> tab[t].base,
                                  body |-> body]]
    /\ UNCHANGED <<site, fence, holder, draft, typed>>

Save(t) == Send(t, tab[t].form)

\* External: a caller of the API sends some fields only.
Patch(t, some) == Send(t, [f \in some |-> tab[t].form[f]])

-----------------------------------------------------------------------------
(* DepotsController.update, DepotsService.update *)

\* The page is answered; its form does not move.
AnswerTab(t) ==
    tab' = [tab EXCEPT ![t] = [pc |-> "form", form |-> tab[t].form, base |-> tab[t].base]]

\* validateSchedule refuses, or the request fails: the form stays.
Fail(t) ==
    /\ tab[t].pc \in {"sent", "read"}
    /\ AnswerTab(t)
    /\ UNCHANGED <<site, fence, holder, draft, typed>>

\* findOne, for the audit.
ReadBefore(t) ==
    /\ tab[t].pc = "sent"
    /\ tab' = [tab EXCEPT ![t] = [pc |-> "read", form |-> tab[t].form, base |-> tab[t].base,
                                  body |-> tab[t].body, before |-> site]]
    /\ UNCHANGED <<site, fence, holder, draft, typed>>

Over(body, row) == [f \in Fields |-> IF f \in DOMAIN body THEN body[f] ELSE row[f]]

\* The row, held until the end of the transaction.
UpdateRow(t) ==
    /\ tab[t].pc = "read" /\ holder = NoTab
    /\ holder' = t
    /\ draft' = [row |-> Over(tab[t].body, site), fence |-> fence]
    /\ tab' = [tab EXCEPT ![t].pc = "row"]
    /\ UNCHANGED <<site, fence, typed>>

\* The geofence follows the row that was written.
UpdateFence(t) ==
    /\ tab[t].pc = "row"
    /\ draft' = IF DOMAIN tab[t].body \cap Geometry # {}
                THEN [draft EXCEPT !.fence = Fence(draft.row)]
                ELSE draft
    /\ tab' = [tab EXCEPT ![t].pc = "fence"]
    /\ UNCHANGED <<site, fence, holder, typed>>

Commit(t) ==
    /\ tab[t].pc = "fence"
    /\ site' = draft.row /\ fence' = draft.fence
    /\ holder' = NoTab
    /\ AnswerTab(t)
    /\ UNCHANGED <<draft, typed>>

\* External: the API stops, the transaction is undone.
Undo(t) ==
    /\ tab[t].pc \in {"row", "fence"}
    /\ holder' = NoTab /\ draft' = [row |-> site, fence |-> fence]
    /\ AnswerTab(t)
    /\ UNCHANGED <<site, fence, typed>>

\* External: the page is left.
LeavePage(t) ==
    /\ tab[t].pc = "form"
    /\ tab' = [tab EXCEPT ![t] = Shut]
    /\ UNCHANGED <<site, fence, holder, draft, typed>>

DepotPageNext ==
    \E t \in Tabs :
        \/ OpenPage(t) \/ Save(t) \/ Fail(t) \/ ReadBefore(t)
        \/ UpdateRow(t) \/ UpdateFence(t) \/ Commit(t) \/ Undo(t) \/ LeavePage(t)
        \/ \E f \in Fields, v \in Values : Type(t, f, v)
        \/ \E some \in SUBSET Fields : Patch(t, some)

DepotPageSpec == DepotPageInit /\ [][DepotPageNext]_depotPageVars

(* The geofence the phones watch is where the depot is, whoever changes which part of *)
(* the depot meanwhile (depots.service.ts:126-127, depots.controller.ts:66-67).        *)
FenceIsTheDepot == fence = Fence(site)

(* The transaction of the page that holds the row: what it has written follows what is   *)
(* committed, until the geometry follows its row.                                      *)
DraftAgrees ==
    \A t \in Tabs :
        /\ holder = t <=> tab[t].pc \in {"row", "fence"}
        /\ tab[t].pc = "row" => draft = [row |-> Over(tab[t].body, site), fence |-> fence]
        /\ tab[t].pc = "fence" => draft.fence = Fence(draft.row)

DepotPageInv == DepotPageTypeOK /\ FenceIsTheDepot /\ DraftAgrees

(* Not held: a page changes only what was typed on it: it sends the whole form, with   *)
(* the values it had read, over those another administrator saved since.               *)
OnlyWhatWasTyped ==
    [][\A t \in Tabs, f \in Fields :
           tab[t].pc = "fence" /\ site'[f] # site[f] /\ holder' = NoTab
               => f \in DOMAIN tab[t].body /\ tab[t].body[f] # tab[t].base[f]]_depotPageVars
=============================================================================
