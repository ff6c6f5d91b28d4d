----------------------------- MODULE ProfileStore -----------------------------
(***************************************************************************)
(* lib/auth.ts: the demo profile and its addresses in localStorage, as     *)
(* functions from a store to a result with the store they leave behind.    *)
(* Every operation of a storage may throw: faults holds the <<operation,   *)
(* key>> pairs that do.  A stored text either is no JSON (Malformed), or   *)
(* decodes to something that is no record of ours (Foreign), or is one.    *)
(***************************************************************************)
EXTENDS Sequences, Integers

CONSTANTS
  LegacyOrder,          \* keys of the retired sign-in, in the order of their removal
  Names, DefaultName,   \* names of 1 to 60 characters; "Demo visitor"
  BadName,              \* a name that is blank or too long
  Addresses, FirstAddress,   \* the synthetic addresses
  Absent, Malformed, Foreign, Old, Synthetic

LegacyKeys == {LegacyOrder[i] : i \in DOMAIN LegacyOrder}
Keys       == LegacyKeys \union {"profile", "addresses"}

Profiles == [name : Names, address : Addresses]
Stores ==
  {s \in [Keys -> {Absent, Malformed, Foreign, Old, Synthetic} \union Profiles] :
     /\ s["profile"] \in {Absent, Malformed, Foreign} \union Profiles
     /\ s["addresses"] \in {Absent, Malformed, Foreign, Synthetic}
     /\ \A k \in LegacyKeys : s[k] \in {Absent, Old}}

\* What the constants must satisfy.
StoreConstants ==
  /\ DefaultName \in Names /\ FirstAddress \in Addresses
  /\ Absent \notin {Malformed, Foreign, Old, Synthetic}
  /\ Foreign \notin {Malformed, Synthetic} /\ Malformed # Synthetic
  /\ \A v \in {Absent, Malformed, Foreign} : v \notin Profiles
  /\ LegacyOrder \in Seq(STRING)
  /\ \A i \in DOMAIN LegacyOrder : LegacyOrder[i] \notin {"profile", "addresses"}

\* DemoProfileResult; the store goes with it.
Good(s, v)  == [store |-> s, code |-> "ok", value |-> v]
Bad(s, c)   == [store |-> s, code |-> c, value |-> Absent]
Unavailable == "storage_unavailable"
Invalid     == "invalid_profile"

\* removeItem on each key of order, up to the first that throws.
Removed(s, order, faults) ==
  [k \in Keys |->
     IF \E i \in DOMAIN order :
          order[i] = k /\ \A j \in 1..i : <<"remove", order[j]>> \notin faults
     THEN Absent ELSE s[k]]

RemoveAll(s, order, faults) ==
  IF \A i \in DOMAIN order : <<"remove", order[i]>> \notin faults
  THEN Good(Removed(s, order, faults), Absent)
  ELSE Bad(Removed(s, order, faults), Unavailable)

\* Mutant: a key that cannot be removed is passed over.
RemoveLegacyAnyway(s, faults) == Good(Removed(s, LegacyOrder, faults), Absent)

RemoveLegacy(s, faults) == RemoveAll(s, LegacyOrder, faults)

Write(s, key, value, faults) ==
  IF <<"set", key>> \in faults THEN Bad(s, Unavailable)
  ELSE Good([s EXCEPT ![key] = value], value)

\* discardInvalidStoredValue: only the offending key is removed.
Discard(s, key, faults) ==
  IF <<"remove", key>> \in faults THEN Bad(s, Unavailable)
  ELSE Bad([s EXCEPT ![key] = Absent], Invalid)

\* What a key holds, decoded; a text that is no JSON is left for the user to clear.
Decoded(s, key, faults) ==
  IF <<"get", key>> \in faults THEN Bad(s, Unavailable)
  ELSE IF s[key] = Foreign THEN Discard(s, key, faults)
  ELSE IF s[key] = Malformed THEN Bad(s, Invalid)
  ELSE Good(s, s[key])

GetProfile(s, faults) ==
  LET migrated == RemoveLegacy(s, faults) IN
  IF migrated.code # "ok" THEN migrated ELSE Decoded(migrated.store, "profile", faults)

\* The synthetic list is written where there is none.
GetAddresses(s, faults) ==
  LET migrated == RemoveLegacy(s, faults)
      stored   == Decoded(migrated.store, "addresses", faults)
  IN IF migrated.code # "ok" THEN migrated
     ELSE IF stored.code = "ok" /\ stored.value = Absent
       THEN Write(migrated.store, "addresses", Synthetic, faults)
     ELSE stored

SaveProfile(s, profile, faults) ==
  LET addresses == GetAddresses(s, faults) IN
  IF addresses.code # "ok" THEN addresses
  ELSE IF profile.name = BadName \/ profile.address \notin Addresses
    THEN Bad(addresses.store, Invalid)
  ELSE Write(addresses.store, "profile", profile, faults)

ForgetProfile(s, faults) ==
  LET migrated == RemoveLegacy(s, faults) IN
  IF migrated.code # "ok" THEN migrated
  ELSE RemoveAll(migrated.store, <<"profile", "addresses">>, faults)

\* loadProfile of the account and sign-in pages: the profile, then the addresses.
LoadBoth(s, faults) ==
  LET profile   == GetProfile(s, faults)
      addresses == GetAddresses(profile.store, faults)
  IN IF profile.code # "ok" THEN profile
     ELSE IF addresses.code # "ok" THEN addresses
     ELSE Good(addresses.store, profile.value)

\* createDefaultDemoProfile.
DefaultProfile == [name |-> DefaultName, address |-> FirstAddress]

\* Nothing of the retired sign-in, and no record that was rejected.
Clean(s) ==
  /\ \A k \in LegacyKeys : s[k] = Absent
  /\ s["profile"] # Foreign /\ s["addresses"] # Foreign
=============================================================================
