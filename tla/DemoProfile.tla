----------------------------- MODULE DemoProfile ------------------------------
(***************************************************************************)
(* The pages that read and write the demo profile: account, sign-in (the   *)
(* profile chooser) and checkout, in tabs that share one localStorage.     *)
(* Each handler is synchronous, so it meets one set of faults; only the    *)
(* guest reset and the submission of an order wait for the service.        *)
(*                                                                         *)
(* What a submission does is CheckoutClient's; here it locks the form and  *)
(* keeps a record with the details it was made from.                       *)
(***************************************************************************)
EXTENDS ProfileStore

CONSTANTS
  Tabs,
  Pages,        \* the pages the tabs open: "account", "signin", "checkout"
  FirstStores,  \* what localStorage may hold at the start
  Faults,       \* the sets of <<operation, key>> that may throw at once
  Custom,       \* an address that was typed
  Weather,      \* what happens: "leaving" a page whose reset is under way
  None

\* What the constants must satisfy.
ProfileConstants ==
  StoreConstants /\ FirstStores \subseteq Stores /\ Custom \notin Addresses

Details == [name : Names, address : Addresses \union {Custom}]

VARIABLES
  store,      \* localStorage
  record,     \* tab -> the details of the unresolved submission, or None
  page,       \* tab -> the mounted page, or None
  reset       \* tab -> the guest reset under way, or None

vars == <<store, record, page, reset>>

Init ==
  /\ store \in FirstStores
  /\ record \in [Tabs -> {None} \union Details]
  /\ page = [t \in Tabs |-> None]
  /\ reset = [t \in Tabs |-> None]

At(t, kind)   == page[t] # None /\ page[t].at = kind
Shows(t, p)   == page' = [page EXCEPT ![t] = p]
ReadyAt(t, kind) == At(t, kind) /\ page[t].status = "ready"
ErrorAt(t, kind) == At(t, kind) /\ page[t].status = "error"

\* A page and the store it leaves behind.
Result(t, r) == /\ store' = r.store
                /\ Shows(t, r.page)

-----------------------------------------------------------------------------
(***************************************************************************)
(* The account page.                                                       *)
(***************************************************************************)
NewAccount == [at |-> "account", status |-> "loading", code |-> "ok", profile |-> Absent,
               ephemeral |-> FALSE, resetting |-> FALSE, said |-> "nothing",
               loaded |-> FALSE]  \* loaded: history of a load that succeeded

LoadAccount(p, s, faults) ==
  LET r == LoadBoth(s, faults) IN
  [store |-> r.store,
   page |-> IF r.code # "ok"
            THEN [p EXCEPT !.status = "error", !.code = r.code, !.ephemeral = FALSE,
                           !.said = "nothing"]
            ELSE [p EXCEPT !.status = "ready", !.code = "ok", !.ephemeral = FALSE,
                           !.profile = r.value, !.said = "nothing", !.loaded = TRUE]]

Open(t, faults) ==
  /\ page[t] = None
  /\ \/ "account" \in Pages /\ Result(t, LoadAccount(NewAccount, store, faults))
     \/ "signin" \in Pages /\ LET r == LoadBoth(store, faults) IN
          Result(t, [store |-> r.store,
                     page |-> [at |-> "signin", profile |-> r.value, code |-> r.code,
                               status |-> IF r.code = "ok" THEN "ready" ELSE "error"]])
  /\ UNCHANGED <<record, reset>>

RetryAccount(t, faults) ==
  /\ ErrorAt(t, "account")
  /\ Result(t, LoadAccount(page[t], store, faults))
  /\ UNCHANGED <<record, reset>>

\* clearInvalidLocalProfile.
ClearAccount(t, faults) ==
  /\ ErrorAt(t, "account") /\ page[t].code = Invalid
  /\ LET r == ForgetProfile(store, faults) IN
       Result(t, IF r.code # "ok" THEN [store |-> r.store, page |-> [page[t] EXCEPT !.code = r.code]]
                 ELSE LoadAccount(page[t], r.store, faults))
  /\ UNCHANGED <<record, reset>>

\* useTemporaryProfile.
TemporaryAccount(t) ==
  /\ ErrorAt(t, "account") /\ page[t].code = Unavailable
  /\ Shows(t, [page[t] EXCEPT !.status = "ready", !.code = "ok", !.ephemeral = TRUE,
                              !.profile = DefaultProfile, !.said = "temporary"])
  /\ UNCHANGED <<store, record, reset>>

\* persistProfile writes the whole profile the page knows; a temporary one is not checked.
Persist(p, profile, faults) ==
  LET r == SaveProfile(store, profile, faults) IN
  IF p.ephemeral
  THEN [store |-> store, page |-> [p EXCEPT !.profile = profile, !.code = "ok", !.said = "temporary"]]
  ELSE [store |-> r.store,
        page |-> IF r.code = "ok" THEN [p EXCEPT !.profile = profile, !.code = "ok", !.said = "saved"]
                 ELSE [p EXCEPT !.code = r.code, !.said = "nothing"]]

SaveDisplayName(t, name, faults) ==
  /\ ReadyAt(t, "account") /\ page[t].profile # Absent
  /\ Result(t, Persist(page[t], [page[t].profile EXCEPT !.name = name], faults))
  /\ UNCHANGED <<record, reset>>

MakeDefaultAddress(t, address, faults) ==
  /\ ReadyAt(t, "account") /\ page[t].profile # Absent
  /\ Result(t, Persist(page[t], [page[t].profile EXCEPT !.address = address], faults))
  /\ UNCHANGED <<record, reset>>

\* forgetLocalProfile; a removal that stops half way leaves the page as it was.
ForgetAccount(t, faults) ==
  /\ ReadyAt(t, "account") /\ page[t].profile # Absent
  /\ LET r == ForgetProfile(store, faults)
         gone == [page[t] EXCEPT !.profile = Absent, !.ephemeral = FALSE, !.code = "ok",
                                 !.said = "forgotten"]
     IN IF page[t].ephemeral THEN Result(t, [store |-> store, page |-> gone])
        ELSE Result(t, [store |-> r.store,
                        page |-> IF r.code = "ok" THEN gone
                                 ELSE [page[t] EXCEPT !.code = r.code, !.said = "nothing"]])
  /\ UNCHANGED <<record, reset>>

\* startFreshGuest up to its await; what it later does about the profile depends on
\* the page as it was at the click.
StartFreshGuest(t) ==
  /\ ReadyAt(t, "account") /\ ~page[t].resetting
  /\ reset[t] = None
  /\ reset' = [reset EXCEPT ![t] = [ephemeral |-> page[t].ephemeral]]
  /\ Shows(t, [page[t] EXCEPT !.resetting = TRUE, !.code = "ok", !.said = "nothing"])
  /\ UNCHANGED <<store, record>>

\* The rest of startFreshGuest, also when its page has been left: the service's answer,
\* the recovery record of this tab, the profile.
FinishFreshGuest(t, ok, faults) ==
  LET cleared == <<"remove", "record">> \notin faults
      forgets == ok /\ cleared /\ ~reset[t].ephemeral
      r       == ForgetProfile(store, faults)
      outcome == IF ~ok THEN "not reset"
                 ELSE IF ~cleared \/ (forgets /\ r.code # "ok") THEN "partly reset"
                 ELSE "fresh"
  IN /\ reset[t] # None
     /\ store' = IF forgets THEN r.store ELSE store
     /\ record' = IF ok /\ cleared THEN [record EXCEPT ![t] = None] ELSE record
     /\ reset' = [reset EXCEPT ![t] = None]
     /\ IF At(t, "account") /\ page[t].resetting
          THEN Shows(t, IF outcome = "fresh"
                 THEN [page[t] EXCEPT !.resetting = FALSE, !.profile = Absent,
                                      !.ephemeral = FALSE, !.said = outcome]
                 ELSE [page[t] EXCEPT !.resetting = FALSE, !.said = outcome])
          ELSE UNCHANGED page

-----------------------------------------------------------------------------
(***************************************************************************)
(* The sign-in page.                                                       *)
(***************************************************************************)
\* loadProfile again, or after clearInvalidLocalProfile.
ReloadSignIn(t, clear, faults) ==
  LET forgotten == ForgetProfile(store, faults)
      r == IF ~clear THEN LoadBoth(store, faults)
           ELSE IF forgotten.code # "ok" THEN forgotten
           ELSE LoadBoth(forgotten.store, faults)
  IN /\ ErrorAt(t, "signin") /\ (clear => page[t].code = Invalid)
     /\ Result(t, [store |-> r.store,
                   page |-> IF r.code = "ok"
                            THEN [page[t] EXCEPT !.status = "ready", !.code = "ok", !.profile = r.value]
                            ELSE [page[t] EXCEPT !.code = r.code]])
     /\ UNCHANGED <<record, reset>>

\* submitProfile; on success the tab goes on to another page.
SubmitProfile(t, name, address, faults) ==
  LET r == SaveProfile(store, [name |-> name, address |-> address], faults) IN
  /\ ReadyAt(t, "signin")
  /\ Result(t, [store |-> r.store,
                page |-> IF r.code = "ok" THEN None ELSE [page[t] EXCEPT !.code = r.code]])
  /\ UNCHANGED <<record, reset>>

ForgetSignIn(t, faults) ==
  LET r == ForgetProfile(store, faults) IN
  /\ ReadyAt(t, "signin") /\ page[t].profile # Absent
  /\ Result(t, [store |-> r.store,
                page |-> IF r.code = "ok" THEN [page[t] EXCEPT !.profile = Absent, !.code = "ok"]
                         ELSE [page[t] EXCEPT !.code = r.code]])
  /\ UNCHANGED <<record, reset>>

Leave(t) ==
  /\ page[t] # None /\ (reset[t] # None => "leaving" \in Weather)
  /\ At(t, "checkout") => page[t].inFlight = 0
  /\ Shows(t, None)
  /\ UNCHANGED <<store, record, reset>>

-----------------------------------------------------------------------------
(***************************************************************************)
(* The checkout page's profile panel and form.                             *)
(***************************************************************************)
NewCheckout ==
  [at |-> "checkout", state |-> "idle", code |-> "ok", available |-> FALSE, listed |-> FALSE,
   ephemeral |-> FALSE, writable |-> FALSE, recovery |-> None, inFlight |-> 0,
   details |-> DefaultProfile, selected |-> FirstAddress,
   deliberate |-> FALSE, entered |-> None]  \* entered: history of deliberate input

\* matchingAddressId: a synthetic address by its fields, or Custom.
Matching(details) == details.address

\* detailsFromAddress with the preferred address.
Filled(p, details) == [p EXCEPT !.details = details, !.selected = details.address]

\* Mutant: a profile that loads late fills the form again.
FillAlways(p, profile) == IF profile = Absent THEN p ELSE Filled(p, profile)

\* The stored profile fills a form nobody has touched.
Fill(p, profile) ==
  IF profile = Absent \/ p.deliberate THEN p ELSE Filled(p, profile)

\* The effect's load() up to its await: recovery record, profile, addresses.
LoadCheckout(p, kept, s, faults) ==
  LET readable  == <<"get", "record">> \notin faults
      stored    == IF readable THEN kept ELSE None
      profile   == GetProfile(s, faults)
      addresses == GetAddresses(profile.store, faults)
      fresh     == [p EXCEPT !.available = FALSE, !.ephemeral = FALSE, !.writable = readable,
                      !.listed = addresses.code = "ok",
                      !.code = IF profile.code # "ok" THEN profile.code ELSE addresses.code]
      locked    == IF stored = None THEN fresh
                   ELSE [fresh EXCEPT !.deliberate = TRUE, !.recovery = stored, !.entered = stored,
                                      !.state = "uncertain", !.details = stored]
  IN [store |-> addresses.store,
      page |-> IF fresh.code # "ok" THEN locked
               ELSE LET known == [locked EXCEPT !.available = profile.value # Absent] IN
                    IF stored # None THEN [known EXCEPT !.selected = Matching(stored)]
                    ELSE Fill(known, profile.value)]

OpenCheckout(t, faults) ==
  /\ page[t] = None /\ "checkout" \in Pages
  /\ Result(t, LoadCheckout(NewCheckout, record[t], store, faults))
  /\ UNCHANGED <<record, reset>>

\* The panel with its buttons is there unless an unresolved order locks the page.
PanelAt(t) == At(t, "checkout") /\ page[t].code # "ok" /\ page[t].state # "uncertain"

RetryProfileStorage(t, faults) ==
  /\ PanelAt(t)
  /\ Result(t, LoadCheckout(page[t], record[t], store, faults))
  /\ UNCHANGED <<record, reset>>

ClearInvalidProfileStorage(t, faults) ==
  LET r == ForgetProfile(store, faults) IN
  /\ PanelAt(t) /\ page[t].code = Invalid
  /\ Result(t, IF r.code # "ok" THEN [store |-> r.store, page |-> [page[t] EXCEPT !.code = r.code]]
               ELSE LoadCheckout(page[t], record[t], r.store, faults))
  /\ UNCHANGED <<record, reset>>

UseTemporaryProfile(t) ==
  LET p == [page[t] EXCEPT !.listed = TRUE, !.available = TRUE, !.code = "ok", !.ephemeral = TRUE] IN
  /\ PanelAt(t) /\ page[t].code = Unavailable
  /\ Shows(t, IF p.deliberate THEN [p EXCEPT !.selected = Matching(p.details)]
              ELSE Filled(p, [p.details EXCEPT !.address = FirstAddress]))
  /\ UNCHANGED <<store, record, reset>>

Editable(t) == At(t, "checkout") /\ page[t].state \notin {"submitting", "uncertain"}

\* An edit of a rejected form returns it to idle.
Entered(p, details, selected) ==
  [p EXCEPT !.details = details, !.selected = selected, !.deliberate = TRUE, !.entered = details,
            !.state = IF @ = "rejected" THEN "idle" ELSE @]

UpdateDetails(t) ==
  /\ Editable(t)
  /\ \/ \E n \in Names :
          Shows(t, Entered(page[t], [page[t].details EXCEPT !.name = n], page[t].selected))
     \/ \E a \in Addresses \union {Custom} :
          Shows(t, Entered(page[t], [page[t].details EXCEPT !.address = a], Custom))
  /\ UNCHANGED <<store, record, reset>>

SelectAddress(t, address) ==
  /\ Editable(t) /\ page[t].listed
  /\ Shows(t, Entered(page[t], [page[t].details EXCEPT !.address = address], address))
  /\ UNCHANGED <<store, record, reset>>

Submitted(p) == [p EXCEPT !.state = "submitting", !.inFlight = @ + 1]

PlaceOrder(t, faults) ==
  /\ Editable(t) /\ page[t].available /\ page[t].code = "ok" /\ page[t].writable
  /\ IF <<"set", "record">> \in faults
       THEN Shows(t, [page[t] EXCEPT !.state = "rejected"]) /\ UNCHANGED record
       ELSE /\ record' = [record EXCEPT ![t] = page[t].details]
            /\ Shows(t, Submitted([page[t] EXCEPT !.recovery = page[t].details]))
  /\ UNCHANGED <<store, reset>>

RetryUncertainOrder(t) ==
  /\ At(t, "checkout") /\ page[t].state = "uncertain" /\ page[t].recovery # None
  /\ page[t].inFlight < 2  \* more than the one there should be
  /\ Shows(t, Submitted(page[t]))
  /\ UNCHANGED <<store, record, reset>>

\* resolveSubmission: accepted (the tab goes to the receipt), lost, or rejected.
ResolveSubmission(t, faults) ==
  LET p == [page[t] EXCEPT !.inFlight = @ - 1]
      cleared == IF <<"remove", "record">> \in faults THEN record ELSE [record EXCEPT ![t] = None]
  IN /\ At(t, "checkout") /\ page[t].inFlight > 0
     /\ \/ record' = cleared /\ Shows(t, None)
        \/ record' = record /\ Shows(t, [p EXCEPT !.state = "uncertain"])
        \/ record' = cleared /\ Shows(t, [p EXCEPT !.state = "rejected", !.recovery = None])
     /\ UNCHANGED <<store, reset>>

-----------------------------------------------------------------------------
Account(t, faults) ==
  \/ RetryAccount(t, faults) \/ ClearAccount(t, faults) \/ TemporaryAccount(t)
  \/ \E n \in Names \union {BadName} : SaveDisplayName(t, n, faults)
  \/ \E a \in Addresses : MakeDefaultAddress(t, a, faults)
  \/ ForgetAccount(t, faults)
  \/ StartFreshGuest(t)
  \/ \E ok \in BOOLEAN : FinishFreshGuest(t, ok, faults)

SignIn(t, faults) ==
  \/ \E clear \in BOOLEAN : ReloadSignIn(t, clear, faults)
  \/ \E n \in Names \union {BadName}, a \in Addresses : SubmitProfile(t, n, a, faults)
  \/ ForgetSignIn(t, faults)

Checkout(t, faults) ==
  \/ OpenCheckout(t, faults)
  \/ RetryProfileStorage(t, faults) \/ ClearInvalidProfileStorage(t, faults)
  \/ UseTemporaryProfile(t)
  \/ UpdateDetails(t)
  \/ \E a \in Addresses : SelectAddress(t, a)
  \/ PlaceOrder(t, faults) \/ RetryUncertainOrder(t) \/ ResolveSubmission(t, faults)

Next ==
  \E t \in Tabs :
    \/ \E faults \in Faults :
         Open(t, faults) \/ Account(t, faults) \/ SignIn(t, faults) \/ Checkout(t, faults)
    \/ Leave(t)

Spec == Init /\ [][Next]_vars

-----------------------------------------------------------------------------
(***************************************************************************)
(* Properties.                                                             *)
(***************************************************************************)
AccountPages ==
  [at : {"account"}, status : {"ready", "error"}, code : {"ok", Invalid, Unavailable},
   profile : [name : Names \union {BadName}, address : Addresses] \union {Absent},
   ephemeral : BOOLEAN, resetting : BOOLEAN, loaded : BOOLEAN,
   said : {"nothing", "temporary", "saved", "forgotten", "fresh", "not reset", "partly reset"}]

SignInPages ==
  [at : {"signin"}, status : {"ready", "error"}, code : {"ok", Invalid, Unavailable},
   profile : Profiles \union {Absent}]

CheckoutPages ==
  [at : {"checkout"}, state : {"idle", "submitting", "uncertain", "rejected"},
   code : {"ok", Invalid, Unavailable}, available : BOOLEAN, listed : BOOLEAN,
   ephemeral : BOOLEAN, writable : BOOLEAN, recovery : Details \union {None}, inFlight : 0..2,
   details : Details, selected : Addresses \union {Custom}, deliberate : BOOLEAN,
   entered : Details \union {None}]

\* The types of the variables.
TypeOK ==
  /\ store \in Stores
  /\ record \in [Tabs -> Details \union {None}]
  /\ page \in [Tabs -> AccountPages \union SignInPages \union CheckoutPages \union {None}]
  /\ reset \in [Tabs -> [ephemeral : BOOLEAN] \union {None}]

\* The page has read the store to its end and works on what it read.
Loaded(p) ==
  \/ p.at = "account" /\ p.status = "ready" /\ p.loaded
  \/ p.at = "signin" /\ p.status = "ready"
  \/ p.at = "checkout" /\ p.code = "ok" /\ ~p.ephemeral

\* "During C2 access, these exact legacy keys are removed", and a rejected record, that
\* may hold credentials, does not stay (docs/ST03_DEMO_PROFILES.md): while any page works
\* on the stored profile, neither is left, whatever threw on the way.
NothingLeftBehind == \A t \in Tabs : page[t] # None /\ Loaded(page[t]) => Clean(store)

\* "apply selected/default address only before deliberate user input" (development.md):
\* through retries, clearing, a temporary profile and rejections, the form holds what the
\* customer entered last or what the unresolved order was made from.
DeliberateInputKept ==
  \A t \in Tabs : At(t, "checkout") /\ page[t].entered # None => page[t].details = page[t].entered

\* "Profile pages show a plain-language error and retry action" (docs/ST03): on an error
\* page, once storage works, Retry succeeds, or the button offered beside it does, or
\* Retry makes that button appear.
Recovers(s) ==
  LET retried == LoadBoth(s, {}) IN
  \/ retried.code = "ok"
  \/ retried.code = Invalid /\ LoadBoth(ForgetProfile(retried.store, {}).store, {}).code = "ok"

ErrorsCanBeLeft ==
  \A t \in Tabs : page[t] # None /\ page[t].code # "ok" => Recovers(store)

\* "They do not fabricate a successful profile write" (docs/ST03): with one tab, the
\* account page never shows another profile than the stored one.
NoOtherProfileShown ==
  \A t \in Tabs : At(t, "account") /\ ~page[t].ephemeral
      /\ page[t].profile # Absent /\ store["profile"] \in Profiles
    => page[t].profile = store["profile"]
=============================================================================
