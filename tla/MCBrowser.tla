------------------------------ MODULE MCBrowser ------------------------------
(***************************************************************************)
(* Small instances of the browser's own parts: the pages of the basket,    *)
(* the guest session and the demo profile.  They share no state in the     *)
(* models, so a behaviour picks one of them and the others stay at their   *)
(* start: what holds of each alone holds of their composition.             *)
(***************************************************************************)
EXTENDS Browser, TLC

CONSTANTS
  Parts,                        \* the parts a run explores
  pizza, soup, nonna, luigi

VARIABLE part                   \* the part that is explored

allVars == <<part, vars, sessionVars, profileVars>>

-----------------------------------------------------------------------------
(***************************************************************************)
(* The instances.                                                          *)
(***************************************************************************)
\* Two dishes of two restaurants, the first in the basket already.
Kitchen == [l \in Lines |-> IF l = soup THEN nonna ELSE luigi]
Stocked == [l \in {pizza} |-> 1]

\* Storage that works, that is denied, that is full, and that fails at one key.
AllKeys  == {"accounts", "session", "profile", "addresses", "record"}
Troubled ==
  {{}, {"get", "set", "remove"} \X AllKeys, {"set"} \X AllKeys}
    \union {{<<"remove", k>>} : k \in AllKeys \ {"accounts"}}

\* What an old build, damage or nobody may have left.
Stored(legacy, profile, addresses) ==
  [k \in {"accounts", "session", "profile", "addresses"} |->
     CASE k = "profile" -> profile [] k = "addresses" -> addresses [] OTHER -> legacy]
NewStore == Stored(Absent, Absent, Absent)
AnyStore ==
  {Stored(legacy, profile, addresses) :
     legacy    \in {Absent, Old},
     profile   \in {Absent, Malformed, Foreign, [name |-> "visitor", address |-> "office"]},
     addresses \in {Absent, Malformed, Foreign, Synthetic}}

\* The keys of the retired sign-in, and the constants of the session and the profile that
\* all runs share.
RetiredKeys == <<"accounts", "session">>
OneWindow   == {"tab"}
AllForms    == {"account", "signin", "checkout"}

-----------------------------------------------------------------------------
(***************************************************************************)
(* One part at a time.                                                     *)
(***************************************************************************)
BrowserInit ==
  /\ part \in Parts
  /\ IF part = "profile" THEN TRUE ELSE store = NewStore /\ record = [t \in FormTabs |-> None]
  /\ Init /\ GS!Init /\ DP!Init

BrowserNext ==
  \/ part = "baskets" /\ Next /\ UNCHANGED <<part, sessionVars, profileVars>>
  \/ part = "session" /\ GS!Next /\ UNCHANGED <<part, vars, profileVars>>
  \/ part = "profile" /\ DP!Next /\ UNCHANGED <<part, vars, sessionVars>>

BrowserSpec == BrowserInit /\ [][BrowserNext]_allVars

\* At its start no part has a step that fairness asks for.
FairBrowserSpec == BrowserSpec /\ Fairness /\ GS!Fairness

BrowserSymmetry == Permutations(Tabs) \union Permutations(Calls)

-----------------------------------------------------------------------------
(***************************************************************************)
(* Properties of the parts together; Browser has those of each.            *)
(***************************************************************************)
\* Every protected request and every reset settles.
RequestsSettle == GS!RequestsSettle /\ GS!ResetsSettle
=============================================================================
