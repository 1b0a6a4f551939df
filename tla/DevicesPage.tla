----------------------------- MODULE DevicesPage -----------------------------
(***************************************************************************)
(* The page of a platform administrator: the listing (hooks/useDevices),   *)
(* the wizard, the New key, Revoke and factory cards, and the context      *)
(* panel of the selected entity.  Calls are served and answered in any     *)
(* order; leaving a card does not stop its call.                           *)
(*                                                                         *)
(* A card is a React component without a key: shown for another device     *)
(* while it is open, it keeps its state.  Only closing it ends the state.  *)
(***************************************************************************)
EXTENDS Naturals, FiniteSets

CONSTANTS
    Devices, Own,   \* devices; those of the administrator's organisation
    None,
    MaxActions      \* bound on what the administrator does

ASSUME DevicesPageAssumption ==
    /\ Own \subseteq Devices
    /\ {None, "none", "loading", "error"} \cap Devices = {}
    /\ MaxActions \in Nat

VARIABLES
    state,          \* the backend: state of a device
    fetches,        \* the listing a run of useDevices's effect has asked for
    effect, scope,  \* the current run, and allTenants
    listing, loading, error,        \* what useDevices returns
    revoke, reissue, wizard, factory,       \* the cards
    calls,          \* what the cards have sent
    selected, panel,                \* selectedEntityId, the context panel
    asks,           \* the getDevice of each run of the panel's effect
    known,          \* the state of a device an answer has told the page
    actions

list == <<fetches, effect, scope, listing, loading, error>>
cards == <<revoke, reissue, wizard, factory>>
context == <<selected, panel, asks>>
vars == <<state, list, cards, calls, context, known, actions>>

\* NONE: not in the registry, or not in the listing.
States == {"NONE", "PENDING", "CLAIMED", "REVOKED"}
Rank(s) == CASE s = "NONE" -> 0 [] s = "PENDING" -> 1 [] s = "CLAIMED" -> 2
             [] s = "REVOKED" -> 3

View == [Devices -> States]
Runs == 0 .. MaxActions

\* mount: which opening of the card it is; dev: its device, on the factory card
\* the one last submitted; shown: the device of the key or code on the card.
Card == [dev : Devices \cup {None}, mount : Runs, busy : BOOLEAN,
         shown : Devices \cup {None}]
Closed == [dev |-> None, mount |-> 0, busy |-> FALSE, shown |-> None]

Fetch == [stage : {"none", "sent", "answered", "failed"}, all : BOOLEAN,
          view : View]
Blank == [d \in Devices |-> "NONE"]
NoFetch == [stage |-> "none", all |-> FALSE, view |-> Blank]
Sent(all) == [stage |-> "sent", all |-> all, view |-> Blank]

Call == [kind : {"validate", "claim", "revoke", "reissue", "register"},
         dev : Devices, mount : Runs, answer : {"none", "ok", "error"}]

TypeOK ==
    /\ state \in [Devices -> States]
    /\ fetches \in [Runs -> Fetch]
    /\ effect \in Runs /\ scope \in BOOLEAN /\ listing \in View
    /\ loading \in BOOLEAN /\ error \in BOOLEAN
    /\ loading <=> fetches[effect].stage # "none"
    /\ {revoke, reissue, wizard, factory} \subseteq Card
    /\ calls \subseteq Call
    /\ selected \in [dev : Devices \cup {None}, run : Runs]
    /\ panel \in {"none", "loading", "error"} \cup Devices
    /\ asks \subseteq [run : Runs, dev : Devices]
    /\ known \in [Devices -> States]
    /\ actions \in 0 .. MaxActions

Init ==
    /\ state \in [Devices -> States]
    /\ fetches = [g \in Runs |-> IF g = 0 THEN Sent(FALSE) ELSE NoFetch]
    /\ effect = 0 /\ scope = FALSE
    /\ listing = Blank
    /\ loading = TRUE /\ error = FALSE
    /\ revoke = Closed /\ reissue = Closed /\ wizard = Closed
    /\ factory = Closed
    /\ calls = {}
    /\ selected = [dev |-> None, run |-> 0] /\ panel = "none" /\ asks = {}
    /\ known = [d \in Devices |-> "NONE"]
    /\ actions = 0

-----------------------------------------------------------------------------
Act == actions < MaxActions /\ actions' = actions + 1

\* useDevices's effect runs again: what the last run asked for is cancelled,
\* the old listing and the old error stay until the answer.
Effect(all) ==
    /\ effect' = effect + 1 /\ scope' = all
    /\ fetches' = [fetches EXCEPT ![effect + 1] = Sent(all)]
    /\ loading' = TRUE
    /\ UNCHANGED <<listing, error>>

Refresh == Effect(scope)

\* The administrator asks for another listing.
Reload ==
    /\ Act
    /\ Effect(~ scope) \/ Refresh
    /\ UNCHANGED <<state, cards, calls, context, known>>

\* GET /devices: all rows the scope shows, at one moment.
ServeList(g) ==
    /\ fetches[g].stage = "sent"
    /\ \/ fetches' = [fetches EXCEPT ![g].stage = "answered",
                        ![g].view = [d \in Devices |->
                            IF fetches[g].all \/ d \in Own THEN state[d]
                            ELSE "NONE"]]
       \/ fetches' = [fetches EXCEPT ![g].stage = "failed"]
    /\ UNCHANGED <<state, effect, scope, listing, loading, error, cards, calls,
                   context, known, actions>>

\* Every answer counts, as it arrives.
CurrentAlways(g) == TRUE

\* cancelled is set by the cleanup of the effect.
Current(g) == g = effect

StillLoading(g) == FALSE

AnswerList(g) ==
    /\ fetches[g].stage \in {"answered", "failed"}
    /\ fetches' = [fetches EXCEPT ![g] = NoFetch]
    /\ IF Current(g)
       THEN /\ error' = (fetches[g].stage = "failed")
            /\ listing' = IF error' THEN listing ELSE fetches[g].view
            /\ loading' = StillLoading(g)
       ELSE UNCHANGED <<listing, loading, error>>
    /\ UNCHANGED <<state, effect, scope, cards, calls, context, known, actions>>

-----------------------------------------------------------------------------
\* The card for d: a new one, or the open one with what it holds.
Opened(card, d) ==
    [card EXCEPT !.dev = d, !.mount = IF @ = 0 THEN actions' ELSE @]

\* The list has buttons unless the last listing failed, and only for devices
\* of one's own organisation.
Offered(d, states) == ~ error /\ d \in Own /\ listing[d] \in states

OpenCard ==
    /\ Act
    /\ \/ /\ \E d \in Devices :
                Offered(d, {"PENDING", "CLAIMED"}) /\ revoke' = Opened(revoke, d)
          /\ UNCHANGED <<reissue, wizard, factory>>
       \/ /\ \E d \in Devices :             \* and no node in the listing
                Offered(d, {"CLAIMED"}) /\ reissue' = Opened(reissue, d)
          /\ UNCHANGED <<revoke, wizard, factory>>
       \/ /\ wizard = Closed /\ wizard' = Opened(wizard, None)
          /\ UNCHANGED <<revoke, reissue, factory>>
       \/ /\ factory = Closed /\ factory' = Opened(factory, None)
          /\ UNCHANGED <<revoke, reissue, wizard>>
    /\ UNCHANGED <<state, list, calls, context, known>>

CloseCard ==
    /\ Act
    /\ \/ /\ revoke # Closed /\ revoke' = Closed
          /\ UNCHANGED <<reissue, wizard, factory, list>>
       \/ /\ reissue # Closed /\ reissue' = Closed /\ Refresh
          /\ UNCHANGED <<revoke, wizard, factory>>
       \/ /\ wizard # Closed /\ wizard' = Closed
          /\ UNCHANGED <<revoke, reissue, factory, list>>
       \/ /\ factory # Closed /\ factory' = Closed
          /\ UNCHANGED <<revoke, reissue, wizard, list>>
    /\ UNCHANGED <<state, calls, context, known>>

Send(kind, d, card) ==
    calls' = calls \cup {[kind |-> kind, dev |-> d, mount |-> card.mount,
                          answer |-> "none"]}

\* The button is enabled while its call is under way.
ReadyAlways(card) == card # Closed

Ready(card) == card # Closed /\ ~ card.busy
Busy(card) == [card EXCEPT !.busy = TRUE, !.shown = None]

\* Confirm: with the device's UUID typed, for a revocation; with UUID and code
\* of any device, in the wizard; for any device, at the factory, where the code
\* of the last one goes away.
Confirm ==
    /\ Act
    /\ \/ /\ Ready(revoke) /\ revoke' = Busy(revoke)
          /\ Send("revoke", revoke.dev, revoke)
          /\ UNCHANGED <<reissue, wizard, factory>>
       \/ /\ Ready(reissue) /\ reissue.shown = None /\ reissue' = Busy(reissue)
          /\ Send("reissue", reissue.dev, reissue)
          /\ UNCHANGED <<revoke, wizard, factory>>
       \/ /\ Ready(wizard) /\ wizard.shown = None /\ wizard' = Busy(wizard)
          /\ \E d \in Own : Send("validate", d, wizard)
          /\ UNCHANGED <<revoke, reissue, factory>>
       \/ /\ Ready(factory)
          /\ \E d \in Devices :
                /\ factory' = [Busy(factory) EXCEPT !.dev = d]
                /\ Send("register", d, factory)
          /\ UNCHANGED <<revoke, reissue, wizard>>
    /\ UNCHANGED <<state, list, context, known>>

Before(kind) ==
    CASE kind \in {"validate", "claim"} -> {"PENDING"}
      [] kind = "reissue" -> {"CLAIMED"}
      [] kind = "revoke" -> {"PENDING", "CLAIMED"}
      [] kind = "register" -> {"NONE", "PENDING"}   \* the same code again
After(kind, s) ==
    CASE kind = "claim" -> "CLAIMED" [] kind = "revoke" -> "REVOKED"
      [] kind = "register" -> "PENDING" [] OTHER -> s

\* The backend serves a call, refuses it, or fails after the change.
Serve(c) ==
    /\ c.answer = "none"
    /\ \E answer \in {"ok", "error"} :
        /\ calls' = (calls \ {c}) \cup {[c EXCEPT !.answer = answer]}
        /\ \/ /\ state[c.dev] \in Before(c.kind)
              /\ state' = [state EXCEPT ![c.dev] = After(c.kind, @)]
           \/ answer = "error" /\ UNCHANGED state
    /\ UNCHANGED <<list, cards, context, known, actions>>

\* The answer reaches the card that asked, if it is still the one on the page.
Reached(card, c, shown) ==
    IF card.mount = c.mount THEN [card EXCEPT !.busy = FALSE, !.shown = shown]
    ELSE card

Told(c, s) ==
    known' = [known EXCEPT ![c.dev] = IF Rank(s) > Rank(@) THEN s ELSE @]

Failed(c) ==
    /\ c.answer = "error"
    /\ calls' = calls \ {c}
    /\ revoke' = IF c.kind = "revoke" THEN Reached(revoke, c, None) ELSE revoke
    /\ reissue' = IF c.kind = "reissue" THEN Reached(reissue, c, None) ELSE reissue
    /\ wizard' = IF c.kind \in {"validate", "claim"} THEN Reached(wizard, c, None)
                 ELSE wizard
    /\ factory' = IF c.kind = "register" THEN Reached(factory, c, None) ELSE factory
    /\ UNCHANGED <<state, list, context, known, actions>>

\* The wizard goes on to the claim, open or not.
Validated(c) ==
    /\ c.kind = "validate" /\ c.answer = "ok"
    /\ calls' = (calls \ {c}) \cup {[c EXCEPT !.kind = "claim", !.answer = "none"]}
    /\ UNCHANGED <<state, list, cards, context, known, actions>>

\* The wizard shows the key of the claim, and the page asks for a new listing.
Claimed(c) ==
    /\ c.kind = "claim" /\ c.answer = "ok"
    /\ calls' = calls \ {c}
    /\ wizard' = Reached(wizard, c, c.dev)
    /\ Told(c, "CLAIMED") /\ Refresh
    /\ UNCHANGED <<state, revoke, reissue, factory, context, actions>>

Reissued(c) ==
    /\ c.kind = "reissue" /\ c.answer = "ok"
    /\ calls' = calls \ {c}
    /\ reissue' = Reached(reissue, c, c.dev)
    /\ UNCHANGED <<state, list, revoke, wizard, factory, context, known, actions>>

\* onRevoked closes the card, for whichever device it is by now.
Revoked(c) ==
    /\ c.kind = "revoke" /\ c.answer = "ok"
    /\ calls' = calls \ {c}
    /\ revoke' = Closed
    /\ Told(c, "REVOKED") /\ Refresh
    /\ UNCHANGED <<state, reissue, wizard, factory, context, actions>>

\* The code is shown, and the page asks for a new listing.
Registered(c) ==
    /\ c.kind = "register" /\ c.answer = "ok"
    /\ calls' = calls \ {c}
    /\ factory' = Reached(factory, c, c.dev)
    /\ Told(c, "PENDING") /\ Refresh
    /\ UNCHANGED <<state, revoke, reissue, wizard, context, actions>>

-----------------------------------------------------------------------------
\* Another entity is selected: the panel's effect runs again.
Select(e) ==
    /\ Act
    /\ e # selected.dev
    /\ selected' = [dev |-> e, run |-> actions']
    /\ panel' = IF e = None THEN "none" ELSE "loading"
    /\ asks' = IF e = None THEN asks ELSE asks \cup {[run |-> actions', dev |-> e]}
    /\ UNCHANGED <<state, list, cards, calls, known>>

\* Whatever is selected by now.
WantedAlways(q) == TRUE

Wanted(q) == q.run = selected.run

\* A PENDING device has no entity: the panel does not show it.
AnswerAsk(q) ==
    /\ asks' = asks \ {q}
    /\ IF Wanted(q)
       THEN \/ panel' = IF state[q.dev] \in {"NONE", "PENDING"} THEN "none" ELSE q.dev
            \/ panel' \in {"none", "error"}
       ELSE UNCHANGED panel
    /\ UNCHANGED <<state, list, cards, calls, selected, known, actions>>

Next ==
    \/ Reload \/ OpenCard \/ CloseCard \/ Confirm
    \/ \E g \in Runs : ServeList(g) \/ AnswerList(g)
    \/ \E c \in calls : Serve(c) \/ Failed(c) \/ Validated(c) \/ Claimed(c)
                        \/ Reissued(c) \/ Revoked(c) \/ Registered(c)
    \/ \E e \in Devices \cup {None} : Select(e)
    \/ \E q \in asks : AnswerAsk(q)

Spec == Init /\ [][Next]_vars

-----------------------------------------------------------------------------
(* Properties. *)

\* A listing that is on the page, neither loading nor failed, is one of the
\* scope that is switched on, and not older than any answer the page has had:
\* a device just revoked is never listed as active, one just registered is
\* there.
ListingFresh ==
    ~ loading /\ ~ error =>
        \A d \in Devices :
            IF scope \/ d \in Own THEN Rank(listing[d]) >= Rank(known[d])
            ELSE listing[d] = "NONE"

\* The context panel shows the selected device or none, however fast the
\* selection moves and however slow the answers are; the factory card shows the
\* code of the device that was registered last, or none.
PanelMatches ==
    /\ panel \in Devices => panel = selected.dev
    /\ factory.shown # None => factory.shown = factory.dev

-----------------------------------------------------------------------------
(* The inductive invariant behind both. *)

\* The page knows of no state that the backend has not reached, and an answer
\* under way tells of none.
AnswersTrue ==
    /\ \A d \in Devices : Rank(known[d]) <= Rank(state[d])
    /\ \A c \in calls : c.answer = "ok" =>
          Rank(After(c.kind, "NONE")) <= Rank(state[c.dev])

\* The answer that the current run of the effect waits for is of the scope that
\* is switched on, and was served after all the page knows of.
CurrentFetch ==
    LET fetch == fetches[effect] IN
    /\ fetch.stage # "none" => fetch.all = scope
    /\ fetch.stage = "answered" => \A d \in Devices :
          IF scope \/ d \in Own THEN Rank(fetch.view[d]) >= Rank(known[d])
          ELSE fetch.view[d] = "NONE"

\* What the selection waits for is about the selected device.
SelectedAsk ==
    /\ selected.run <= actions
    /\ \A q \in asks : /\ q.run <= actions
                       /\ q.run = selected.run => q.dev = selected.dev

\* An open card, and a call, bear the number of an opening; what can be revoked
\* or reissued is a device.
OpenCards ==
    /\ \A card \in {revoke, reissue, wizard, factory} :
          card.mount <= actions /\ (card # Closed => card.mount # 0)
    /\ \A card \in {revoke, reissue} : card # Closed => card.dev \in Devices
    /\ \A c \in calls : c.mount # 0 /\ c.mount <= actions

\* The factory card has at most one call under way that it would take the
\* answer of, for the device last submitted, and none when it is not busy.
FactoryCall ==
    \A c \in calls : c.kind = "register" /\ c.mount = factory.mount =>
        /\ factory.busy /\ factory.dev = c.dev
        /\ \A b \in calls : b.kind = "register" /\ b.mount = factory.mount => b = c

\* A run of the effect is owed to an action or to the answer of a call, and a
\* call to an action.
RunsOwed ==
    /\ IsFiniteSet(calls)
    /\ effect + Cardinality(calls) <= actions

PageInv ==
    /\ TypeOK
    /\ AnswersTrue
    /\ CurrentFetch
    /\ SelectedAsk
    /\ OpenCards
    /\ FactoryCall
    /\ RunsOwed
    /\ ListingFresh
    /\ PanelMatches

-----------------------------------------------------------------------------
\* DEVELOPER_GUIDE.md: New key "on the device in the Devices page ... shows a
\* new command": the command on the card is for the device on the card.
KeyForDevice == reissue.shown # None => reissue.shown = reissue.dev
=============================================================================
