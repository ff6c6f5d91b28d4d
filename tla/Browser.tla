------------------------------- MODULE Browser -------------------------------
(***************************************************************************)
(* The browser's own parts: the pages of the basket, the guest session and *)
(* the demo profile, each with variables of its own.  A property here is   *)
(* one of the module it names.                                             *)
(***************************************************************************)
EXTENDS BasketPages

CONSTANTS
  Windows, Calls, FirstCookie, MaxGuests, MaxBoots, MaxScopes,   \* of GuestSession
  SessionWeather,
  LegacyOrder, Names, DefaultName, BadName,                      \* of ProfileStore
  Addresses, FirstAddress, Absent, Malformed, Foreign, Old, Synthetic,
  FormTabs, FormPages, FirstStores, Faults, Custom, FormWeather  \* of DemoProfile

VARIABLES
  cookie, live, born, boots, session, scope, aborted, reset, writes, req, origin, ended,
  store, record, form, rotation

sessionVars == <<cookie, live, born, boots, session, scope, aborted, reset, writes, req,
                 origin, ended>>
profileVars == <<store, record, form, rotation>>

GS == INSTANCE GuestSession WITH
  Tabs <- Windows, Requests <- Calls, Weather <- SessionWeather, issued <- born, queue <- writes

DP == INSTANCE DemoProfile WITH
  Tabs <- FormTabs, Pages <- FormPages, Weather <- FormWeather, page <- form, reset <- rotation

ASSUME BrowserAssumption ==
  BasketConstants /\ GS!SessionConstants /\ DP!ProfileConstants

-----------------------------------------------------------------------------
\* The types of the variables; and nobody waits for a bootstrap that is over.
TypesOK == TypeOK /\ GS!TypeOK /\ DP!TypeOK

\* No request is sent for a guest that a reset after its click has brought.
NoWriteCrossesReset == GS!NoWriteCrossesReset

\* No accepted answer shows rows of a guest its own tab has ended.
NoRowsOfEndedGuest == GS!NoRowsOfEndedGuest

\* A page works on the stored profile only when nothing retired or rejected is left, can
\* be led out of every error, and never shows a profile that is not stored.
ProfileIsHonest == DP!NothingLeftBehind /\ DP!ErrorsCanBeLeft /\ DP!NoOtherProfileShown

\* What the customer entered, or an unresolved order was made from, stays in the form.
DeliberateInputKept == DP!DeliberateInputKept
=============================================================================
