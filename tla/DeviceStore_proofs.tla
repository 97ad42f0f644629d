-------------------------- MODULE DeviceStore_proofs --------------------------
(***************************************************************************)
(* For every set of runs of a device whose locks lock: the identity on     *)
(* disk is never replaced, its wrapping opens, and no change of a setting  *)
(* is lost. The argument is mutual exclusion.  A run that has looked at    *)
(* identity.key holds identity.lock until it has written it, so that what  *)
(* it saw is still there; and so does one that has loaded the settings     *)
(* with settings.lock.                                                     *)
(***************************************************************************)
EXTENDS DeviceStore, TLAPS

Creating  == {"look", "resolve", "mint", "read back", "write"}
Decided   == {"resolve", "mint", "read back", "write"}
Changing  == {"open", "save"}

\* The locks are held across what they guard.
Exclusion ==
    /\ \A r \in Runs : at[r] \in Creating => holder["identity"] = r
    /\ \A r \in Runs : at[r] \in Changing => holder["settings"] = r

\* A file names an identity, and a run that goes on has one.
Named ==
    /\ keyFile.under # NoOne => keyFile.key # NoOne
    /\ \A r \in Runs : HasIdentity(r) \/ at[r] \in Decided => id[r] # NoOne

\* What a run saw of identity.key and of the keyring is still so when it writes.
Fresh ==
    \A r \in Runs : at[r] \in Decided =>
        /\ keyFile.under = NoOne
        /\ keyFile.key = NoOne => id[r] = r
        /\ keyFile.key # NoOne => id[r] = keyFile.key
        /\ pass[r] # NoOne => at[r] = "write" /\ keyring = pass[r]

\* No passphrase before it is looked for.
Unset == \A r \in Runs : at[r] \in {"off", "look"} => pass[r] = NoOne

\* And what it loaded of the settings.
Current == \A r \in Runs : at[r] = "save" => store[r] = settings.map

IInv ==
    /\ TypeOK
    /\ Exclusion
    /\ Named
    /\ Fresh
    /\ Unset
    /\ Current
    /\ IdentityIsKept
    /\ KeyOpens
    /\ NoLostUpdate

-----------------------------------------------------------------------------

USE NoOneAssumption DEF HasIdentity, Creating, Decided, Changing, NoFile, NoStore

\* The initial states.
LEMMA IInvInit == Init => IInv
  BY DEF Init, IInv, TypeOK, Places, Exclusion, Named, Fresh, Unset, Current,
     IdentityIsKept, KeyOpens, NoLostUpdate

\* A run moves on, and it alone.
LEMMA Moves ==
  ASSUME TypeOK, NEW r \in Runs, NEW from, NEW to \in Places, Goes(r, from, to)
  PROVE  /\ at' \in [Runs -> Places]
         /\ at[r] = from /\ at'[r] = to
         /\ \A q \in Runs : q # r => at'[q] = at[q]
  BY DEF Goes, TypeOK

\* A lock that is taken was free.
LEMMA Locked ==
  ASSUME Flock, TypeOK, NEW r \in Runs, NEW l \in Locks, Lock(l, r)
  PROVE  /\ holder' \in [Locks -> Runs \cup {NoOne}]
         /\ holder[l] = NoOne /\ holder'[l] = r
         /\ \A m \in Locks : m # l => holder'[m] = holder[m]
  BY DEF Lock, TypeOK

\* A run drops its own locks only.
LEMMA Unlocked ==
  ASSUME TypeOK, NEW r \in Runs, Unlock(r)
  PROVE  /\ holder' \in [Locks -> Runs \cup {NoOne}]
         /\ \A l \in Locks : holder[l] # r => holder'[l] = holder[l]
  BY DEF Unlock, TypeOK

\* Both locks are named.
LEMMA LockNames == "identity" \in Locks /\ "settings" \in Locks /\ "identity" # "settings"
  BY DEF Locks

\* The lock was free, so that no other run is at the identity.
LEMMA LockIdentityKeeps ==
  ASSUME Flock, ~LockMayFail, IInv, NEW r \in Runs, LockIdentity(r)
  PROVE  IInv'
<1> USE LockNames DEF IInv
<1>1. /\ at[r] = "off" /\ at'[r] = "look"
      /\ at' \in [Runs -> Places]
      /\ \A q \in Runs : q # r => at'[q] = at[q]
  BY Moves DEF LockIdentity, Places
<1>2. /\ holder' \in [Locks -> Runs \cup {NoOne}]
      /\ holder["identity"] = NoOne /\ holder'["identity"] = r
      /\ \A m \in Locks : m # "identity" => holder'[m] = holder[m]
  BY Locked DEF LockIdentity
<1>3. UNCHANGED <<keyring, keyFile, settings, reachable, id, pass, store>>
  BY DEF LockIdentity, files
<1>4. TypeOK'
  BY <1>1, <1>2, <1>3 DEF TypeOK
<1>5. Exclusion'
  BY <1>1, <1>2, <1>3 DEF Exclusion, TypeOK
<1>6. Named'
  BY <1>1, <1>2, <1>3 DEF Named, TypeOK, IdentityIsKept
<1>7. Fresh'
  BY <1>1, <1>2, <1>3 DEF Fresh, TypeOK, Exclusion, Named, KeyOpens, Unset
<1>8. Unset'
  BY <1>1, <1>2, <1>3 DEF Unset, TypeOK
<1>9. Current'
  BY <1>1, <1>2, <1>3 DEF Current, TypeOK, Exclusion
<1>10. IdentityIsKept'
  BY <1>1, <1>2, <1>3 DEF IdentityIsKept, TypeOK, Named, Fresh
<1>11. KeyOpens'
  BY <1>1, <1>2, <1>3 DEF KeyOpens, TypeOK, Fresh
<1>12. NoLostUpdate'
  BY <1>1, <1>2, <1>3 DEF NoLostUpdate, TypeOK, Named, Fresh, Current, IdentityIsKept
<1> QED
  BY <1>4, <1>5, <1>6, <1>7, <1>8, <1>9, <1>10, <1>11, <1>12

\* What is seen is the file itself.
LEMMA LookPlainKeeps ==
  ASSUME Flock, IInv, NEW r \in Runs, LookPlain(r)
  PROVE  IInv'
<1> USE LockNames DEF IInv
<1>1. /\ at[r] = "look" /\ at'[r] = "resolve"
      /\ at' \in [Runs -> Places]
      /\ \A q \in Runs : q # r => at'[q] = at[q]
  BY Moves DEF LookPlain, Places
<1>2. id' \in [Runs -> Runs \cup {NoOne}] /\ \A q \in Runs : q # r => id'[q] = id[q]
  BY DEF LookPlain, TypeOK
<1>3. keyFile.under = NoOne /\ id'[r] = IF keyFile.key = NoOne THEN r ELSE keyFile.key
  BY DEF LookPlain, TypeOK
<1>4. UNCHANGED <<keyring, keyFile, settings, reachable, holder, pass, store>>
  BY DEF LookPlain, files
<1>5. TypeOK'
  BY <1>1, <1>2, <1>3, <1>4 DEF TypeOK
<1>6. Exclusion'
  BY <1>1, <1>2, <1>3, <1>4 DEF Exclusion, TypeOK
<1>7. Named'
  BY <1>1, <1>2, <1>3, <1>4 DEF Named, TypeOK, IdentityIsKept
<1>8. Fresh'
  BY <1>1, <1>2, <1>3, <1>4, ZenonT(60) DEF Fresh, TypeOK, Exclusion, Named, KeyOpens, Unset
<1>9. Unset'
  BY <1>1, <1>2, <1>3, <1>4 DEF Unset, TypeOK
<1>10. Current'
  BY <1>1, <1>2, <1>3, <1>4 DEF Current, TypeOK, Exclusion
<1>11. IdentityIsKept'
  BY <1>1, <1>2, <1>3, <1>4 DEF IdentityIsKept, TypeOK, Named, Fresh
<1>12. KeyOpens'
  BY <1>1, <1>2, <1>3, <1>4 DEF KeyOpens, TypeOK, Fresh
<1>13. NoLostUpdate'
  BY <1>1, <1>2, <1>3, <1>4 DEF NoLostUpdate, TypeOK, Named, Fresh, Current, IdentityIsKept
<1> QED
  BY <1>5, <1>6, <1>7, <1>8, <1>9, <1>10, <1>11, <1>12, <1>13

\* An identity that opens is the one on disk.
LEMMA LookWrappedKeeps ==
  ASSUME Flock, IInv, NEW r \in Runs, LookWrapped(r)
  PROVE  IInv'
<1> USE LockNames DEF IInv
<1>1. /\ at[r] = "look" /\ at'[r] \in {"loaded", "over"}
      /\ at' \in [Runs -> Places]
      /\ \A q \in Runs : q # r => at'[q] = at[q]
  <2>1. CASE reachable /\ keyring = keyFile.under
    BY <2>1, Moves DEF LookWrapped, Places
  <2>2. CASE ~(reachable /\ keyring = keyFile.under)
    BY <2>2, Moves DEF LookWrapped, Places
  <2> QED BY <2>1, <2>2
<1>2. /\ holder' \in [Locks -> Runs \cup {NoOne}]
      /\ \A l \in Locks : holder[l] # r => holder'[l] = holder[l]
  BY Unlocked DEF LookWrapped
<1>3. /\ id' \in [Runs -> Runs \cup {NoOne}]
      /\ \A q \in Runs : q # r => id'[q] = id[q]
      /\ keyFile.under # NoOne
      /\ at'[r] = "loaded" => id'[r] = keyFile.key
  <2>1. CASE reachable /\ keyring = keyFile.under
    BY <2>1 DEF LookWrapped, Opened, TypeOK
  <2>2. CASE ~(reachable /\ keyring = keyFile.under)
    BY <2>2, Moves, ZenonT(60) DEF LookWrapped, TypeOK, Places
  <2> QED BY <2>1, <2>2
<1>4. UNCHANGED <<keyring, keyFile, settings, reachable, pass, store>>
  BY DEF LookWrapped, files
<1>5. TypeOK'
  BY <1>1, <1>2, <1>3, <1>4 DEF TypeOK
<1>6. Exclusion'
  BY <1>1, <1>2, <1>3, <1>4 DEF Exclusion, TypeOK
<1>7. Named'
  BY <1>1, <1>2, <1>3, <1>4 DEF Named, TypeOK, IdentityIsKept
<1>8. Fresh'
  BY <1>1, <1>2, <1>3, <1>4 DEF Fresh, TypeOK, Exclusion, Named, KeyOpens, Unset
<1>9. Unset'
  BY <1>1, <1>2, <1>3, <1>4 DEF Unset, TypeOK
<1>10. Current'
  BY <1>1, <1>2, <1>3, <1>4 DEF Current, TypeOK, Exclusion
<1>11. IdentityIsKept'
  BY <1>1, <1>2, <1>3, <1>4 DEF IdentityIsKept, TypeOK, Named, Fresh
<1>12. KeyOpens'
  BY <1>1, <1>2, <1>3, <1>4 DEF KeyOpens, TypeOK, Fresh
<1>13. NoLostUpdate'
  BY <1>1, <1>2, <1>3, <1>4 DEF NoLostUpdate, TypeOK, Named, Fresh, Current, IdentityIsKept
<1> QED
  BY <1>5, <1>6, <1>7, <1>8, <1>9, <1>10, <1>11, <1>12, <1>13

\* A passphrase that is found is the keyring's.
LEMMA ResolveKeeps ==
  ASSUME Flock, IInv, NEW r \in Runs, Resolve(r)
  PROVE  IInv'
<1> USE LockNames DEF IInv
<1>1. /\ at[r] = "resolve" /\ at'[r] \in {"mint", "write"}
      /\ at' \in [Runs -> Places]
      /\ \A q \in Runs : q # r => at'[q] = at[q]
  <2>1. CASE reachable /\ keyring = NoOne
    BY <2>1, Moves DEF Resolve, Places
  <2>2. CASE ~(reachable /\ keyring = NoOne)
    BY <2>2, Moves DEF Resolve, Places
  <2> QED BY <2>1, <2>2
<1>2. /\ pass' \in [Runs -> Runs \cup {NoOne}]
      /\ \A q \in Runs : q # r => pass'[q] = pass[q]
      /\ IF at'[r] = "write" THEN pass'[r] \in {NoOne, keyring} ELSE pass'[r] = pass[r]
  <2>1. CASE reachable /\ keyring = NoOne
    BY <2>1, Moves, ZenonT(60) DEF Resolve, TypeOK, Places
  <2>2. CASE ~(reachable /\ keyring = NoOne)
    <3>1. at'[r] = "write" /\ pass' = [pass EXCEPT ![r] = IF reachable THEN keyring ELSE NoOne]
      BY <2>2, Moves DEF Resolve, Places
    <3> QED
      BY <3>1 DEF TypeOK
  <2> QED BY <2>1, <2>2
<1>3. UNCHANGED <<keyring, keyFile, settings, reachable, holder, id, store>>
  BY DEF Resolve, files
<1>4. TypeOK'
  BY <1>1, <1>2, <1>3 DEF TypeOK
<1>5. Exclusion'
  BY <1>1, <1>2, <1>3 DEF Exclusion, TypeOK
<1>6. Named'
  BY <1>1, <1>2, <1>3 DEF Named, TypeOK, IdentityIsKept
<1>7. Fresh'
  <2> SUFFICES ASSUME NEW q \in Runs, at'[q] \in Decided
               PROVE  /\ at[q] \in Decided
                      /\ pass'[q] # NoOne => at'[q] = "write" /\ keyring = pass'[q]
    BY <1>3 DEF Fresh
  <2>1. CASE q = r
    BY <2>1, <1>1, <1>2 DEF Fresh
  <2>2. CASE q # r
    BY <2>2, <1>1, <1>2 DEF Fresh
  <2> QED BY <2>1, <2>2
<1>8. Unset'
  BY <1>1, <1>2, <1>3 DEF Unset, TypeOK
<1>9. Current'
  BY <1>1, <1>2, <1>3 DEF Current, TypeOK, Exclusion
<1>10. IdentityIsKept'
  BY <1>1, <1>2, <1>3 DEF IdentityIsKept, TypeOK, Named, Fresh
<1>11. KeyOpens'
  BY <1>1, <1>2, <1>3 DEF KeyOpens, TypeOK, Fresh
<1>12. NoLostUpdate'
  BY <1>1, <1>2, <1>3 DEF NoLostUpdate, TypeOK, Named, Fresh, Current, IdentityIsKept
<1> QED
  BY <1>4, <1>5, <1>6, <1>7, <1>8, <1>9, <1>10, <1>11, <1>12

\* Nobody else is at the identity, so that no file is wrapped under what is replaced.
LEMMA MintKeeps ==
  ASSUME Flock, IInv, NEW r \in Runs, Mint(r)
  PROVE  IInv'
<1> USE LockNames DEF IInv
<1>1. /\ at[r] = "mint" /\ at'[r] \in {"read back", "write"}
      /\ at' \in [Runs -> Places]
      /\ \A q \in Runs : q # r => at'[q] = at[q]
  BY Moves DEF Mint, Places
<1>2. keyring' \in Runs \cup {NoOne} /\ (at'[r] = "write" => keyring' = keyring)
  <2>1. CASE Goes(r, "mint", "read back") /\ reachable /\ keyring' \in {r, keyring}
    BY <2>1, Moves, ZenonT(60) DEF TypeOK, Places
  <2>2. CASE Goes(r, "mint", "write") /\ UNCHANGED keyring
    BY <2>2 DEF TypeOK
  <2> QED BY <2>1, <2>2 DEF Mint
<1>3. \A q \in Runs : q # r => at[q] \notin Creating
  BY <1>1 DEF Exclusion
<1>4. UNCHANGED <<keyFile, settings, reachable, holder, id, pass, store>>
  BY DEF Mint, files
<1>5. TypeOK'
  BY <1>1, <1>2, <1>3, <1>4 DEF TypeOK
<1>6. Exclusion'
  BY <1>1, <1>2, <1>3, <1>4 DEF Exclusion, TypeOK
<1>7. Named'
  BY <1>1, <1>2, <1>3, <1>4 DEF Named, TypeOK, IdentityIsKept
<1>8. Fresh'
  BY <1>1, <1>2, <1>3, <1>4, ZenonT(60) DEF Fresh, TypeOK, Exclusion, Named, KeyOpens, Unset
<1>9. Unset'
  BY <1>1, <1>2, <1>3, <1>4 DEF Unset, TypeOK
<1>10. Current'
  BY <1>1, <1>2, <1>3, <1>4 DEF Current, TypeOK, Exclusion
<1>11. IdentityIsKept'
  BY <1>1, <1>2, <1>3, <1>4 DEF IdentityIsKept, TypeOK, Named, Fresh
<1>12. KeyOpens'
  BY <1>1, <1>2, <1>3, <1>4 DEF KeyOpens, TypeOK, Fresh
<1>13. NoLostUpdate'
  BY <1>1, <1>2, <1>3, <1>4 DEF NoLostUpdate, TypeOK, Named, Fresh, Current, IdentityIsKept
<1> QED
  BY <1>5, <1>6, <1>7, <1>8, <1>9, <1>10, <1>11, <1>12, <1>13

\* What is read back is the keyring's.
LEMMA ReadBackKeeps ==
  ASSUME Flock, IInv, NEW r \in Runs, ReadBack(r)
  PROVE  IInv'
<1> USE LockNames DEF IInv
<1>1. /\ at[r] = "read back" /\ at'[r] = "write"
      /\ at' \in [Runs -> Places]
      /\ \A q \in Runs : q # r => at'[q] = at[q]
  BY Moves DEF ReadBack, Places
<1>2. /\ pass' \in [Runs -> Runs \cup {NoOne}]
      /\ \A q \in Runs : q # r => pass'[q] = pass[q]
      /\ pass'[r] # NoOne => keyring = pass'[r]
  BY DEF ReadBack, Kept, TypeOK
<1>3. UNCHANGED <<keyring, keyFile, settings, reachable, holder, id, store>>
  BY DEF ReadBack, files
<1>4. TypeOK'
  BY <1>1, <1>2, <1>3 DEF TypeOK
<1>5. Exclusion'
  BY <1>1, <1>2, <1>3 DEF Exclusion, TypeOK
<1>6. Named'
  BY <1>1, <1>2, <1>3 DEF Named, TypeOK, IdentityIsKept
<1>7. Fresh'
  BY <1>1, <1>2, <1>3, ZenonT(60) DEF Fresh, TypeOK, Exclusion, Named, KeyOpens, Unset
<1>8. Unset'
  BY <1>1, <1>2, <1>3 DEF Unset, TypeOK
<1>9. Current'
  BY <1>1, <1>2, <1>3 DEF Current, TypeOK, Exclusion
<1>10. IdentityIsKept'
  BY <1>1, <1>2, <1>3 DEF IdentityIsKept, TypeOK, Named, Fresh
<1>11. KeyOpens'
  BY <1>1, <1>2, <1>3 DEF KeyOpens, TypeOK, Fresh
<1>12. NoLostUpdate'
  BY <1>1, <1>2, <1>3 DEF NoLostUpdate, TypeOK, Named, Fresh, Current, IdentityIsKept
<1> QED
  BY <1>4, <1>5, <1>6, <1>7, <1>8, <1>9, <1>10, <1>11, <1>12

\* The identity that is written is the one that was there, or the first.
LEMMA SaveIdentityKeeps ==
  ASSUME Flock, IInv, NEW r \in Runs, SaveIdentity(r)
  PROVE  IInv'
<1> USE LockNames DEF IInv
<1>1. /\ at[r] = "write" /\ at'[r] = "loaded"
      /\ at' \in [Runs -> Places]
      /\ \A q \in Runs : q # r => at'[q] = at[q]
  BY Moves DEF SaveIdentity, Places
<1>2. /\ holder' \in [Locks -> Runs \cup {NoOne}]
      /\ \A l \in Locks : holder[l] # r => holder'[l] = holder[l]
  BY Unlocked DEF SaveIdentity
<1>3. /\ keyFile' \in [key : Runs \cup {NoOne}, under : Runs \cup {NoOne}]
      /\ keyFile'.key = id[r]
      /\ keyFile'.under = pass[r]
  BY <1>1 DEF SaveIdentity, Wrapped, Plain, TypeOK, Fresh, Named
<1>4. \A q \in Runs : q # r => at[q] \notin Creating
  BY <1>1 DEF Exclusion
<1>5. keyFile.key # NoOne => id[r] = keyFile.key
  BY <1>1 DEF Fresh
<1>6. UNCHANGED <<keyring, settings, reachable, id, pass, store>>
  BY DEF SaveIdentity, files
<1>7. TypeOK'
  BY <1>1, <1>2, <1>3, <1>4, <1>5, <1>6 DEF TypeOK
<1>8. Exclusion'
  BY <1>1, <1>2, <1>3, <1>4, <1>5, <1>6 DEF Exclusion, TypeOK
<1>9. Named'
  BY <1>1, <1>2, <1>3, <1>4, <1>5, <1>6 DEF Named, TypeOK, IdentityIsKept
<1>10. Fresh'
  <2> SUFFICES ASSUME NEW q \in Runs, at'[q] \in Decided PROVE FALSE
    BY DEF Fresh
  <2> QED
    BY <1>1, <1>4
<1>11. Unset'
  BY <1>1, <1>2, <1>3, <1>4, <1>5, <1>6 DEF Unset, TypeOK
<1>12. Current'
  BY <1>1, <1>2, <1>3, <1>4, <1>5, <1>6 DEF Current, TypeOK, Exclusion
<1>13. IdentityIsKept'
  <2> SUFFICES ASSUME NEW q \in Runs, HasIdentity(q)' PROVE keyFile'.key = id'[q]
    BY DEF IdentityIsKept
  <2>1. CASE q = r
    BY <2>1, <1>3, <1>6
  <2>2. CASE q # r
    <3>1. keyFile.key = id[q] /\ id[q] # NoOne
      BY <2>2, <1>1 DEF IdentityIsKept, Named
    <3> QED
      BY <3>1, <1>3, <1>5, <1>6
  <2> QED BY <2>1, <2>2
<1>14. KeyOpens'
  BY <1>1, <1>2, <1>3, <1>4, <1>5, <1>6 DEF KeyOpens, TypeOK, Fresh
<1>15. NoLostUpdate'
  BY <1>1, <1>2, <1>3, <1>4, <1>5, <1>6 DEF NoLostUpdate, TypeOK, Named, Fresh, Current, IdentityIsKept
<1> QED
  BY <1>7, <1>8, <1>9, <1>10, <1>11, <1>12, <1>13, <1>14, <1>15

\* The lock was free, so that no other run is at the settings.
LEMMA LockSettingsKeeps ==
  ASSUME Flock, IInv, NEW r \in Runs, LockSettings(r)
  PROVE  IInv'
<1> USE LockNames DEF IInv
<1>1. /\ at[r] = "loaded" /\ at'[r] = "open"
      /\ at' \in [Runs -> Places]
      /\ \A q \in Runs : q # r => at'[q] = at[q]
  BY Moves DEF LockSettings, Places
<1>2. /\ holder' \in [Locks -> Runs \cup {NoOne}]
      /\ holder["settings"] = NoOne /\ holder'["settings"] = r
      /\ \A m \in Locks : m # "settings" => holder'[m] = holder[m]
  BY Locked DEF LockSettings
<1>3. UNCHANGED <<keyring, keyFile, settings, reachable, id, pass, store>>
  BY DEF LockSettings, files
<1>4. TypeOK'
  BY <1>1, <1>2, <1>3 DEF TypeOK
<1>5. Exclusion'
  BY <1>1, <1>2, <1>3 DEF Exclusion, TypeOK
<1>6. Named'
  BY <1>1, <1>2, <1>3 DEF Named, TypeOK, IdentityIsKept
<1>7. Fresh'
  BY <1>1, <1>2, <1>3 DEF Fresh, TypeOK, Exclusion, Named, KeyOpens, Unset
<1>8. Unset'
  BY <1>1, <1>2, <1>3 DEF Unset, TypeOK
<1>9. Current'
  BY <1>1, <1>2, <1>3 DEF Current, TypeOK, Exclusion
<1>10. IdentityIsKept'
  BY <1>1, <1>2, <1>3, ZenonT(60) DEF IdentityIsKept, TypeOK, Named, Fresh
<1>11. KeyOpens'
  BY <1>1, <1>2, <1>3 DEF KeyOpens, TypeOK, Fresh
<1>12. NoLostUpdate'
  BY <1>1, <1>2, <1>3 DEF NoLostUpdate, TypeOK, Named, Fresh, Current, IdentityIsKept
<1> QED
  BY <1>4, <1>5, <1>6, <1>7, <1>8, <1>9, <1>10, <1>11, <1>12

\* What is loaded is the file itself.
LEMMA LoadSettingsKeeps ==
  ASSUME Flock, IInv, NEW r \in Runs, LoadSettings(r)
  PROVE  IInv'
<1> USE LockNames DEF IInv
<1>1. /\ at[r] = "open" /\ at'[r] \in {"save", "over"}
      /\ at' \in [Runs -> Places]
      /\ \A q \in Runs : q # r => at'[q] = at[q]
  <2>1. CASE settings.by \in {NoOne, id[r]}
    BY <2>1, Moves DEF LoadSettings, Places
  <2>2. CASE settings.by \notin {NoOne, id[r]}
    BY <2>2, Moves DEF LoadSettings, Places
  <2> QED BY <2>1, <2>2
<1>2. /\ holder' \in [Locks -> Runs \cup {NoOne}]
      /\ \A l \in Locks : holder[l] # r => holder'[l] = holder[l]
      /\ at'[r] = "save" => holder' = holder
  <2>1. CASE settings.by \in {NoOne, id[r]}
    BY <2>1 DEF LoadSettings, TypeOK
  <2>2. CASE settings.by \notin {NoOne, id[r]}
    BY <2>2, Unlocked, Moves DEF LoadSettings, Places
  <2> QED BY <2>1, <2>2
<1>3. /\ store' \in [Runs -> SUBSET Runs]
      /\ \A q \in Runs : q # r => store'[q] = store[q]
      /\ at'[r] = "save" => store'[r] = settings.map
  <2>1. CASE settings.by \in {NoOne, id[r]}
    BY <2>1 DEF LoadSettings, TypeOK
  <2>2. CASE settings.by \notin {NoOne, id[r]}
    BY <2>2, Moves, ZenonT(60) DEF LoadSettings, TypeOK, Places
  <2> QED BY <2>1, <2>2
<1>4. UNCHANGED <<keyring, keyFile, settings, reachable, id, pass>>
  BY DEF LoadSettings, files
<1>5. TypeOK'
  BY <1>1, <1>2, <1>3, <1>4 DEF TypeOK
<1>6. Exclusion'
  BY <1>1, <1>2, <1>3, <1>4 DEF Exclusion, TypeOK
<1>7. Named'
  BY <1>1, <1>2, <1>3, <1>4 DEF Named, TypeOK, IdentityIsKept
<1>8. Fresh'
  BY <1>1, <1>2, <1>3, <1>4 DEF Fresh, TypeOK, Exclusion, Named, KeyOpens, Unset
<1>9. Unset'
  BY <1>1, <1>2, <1>3, <1>4 DEF Unset, TypeOK
<1>10. Current'
  BY <1>1, <1>2, <1>3, <1>4 DEF Current, TypeOK, Exclusion
<1>11. IdentityIsKept'
  BY <1>1, <1>2, <1>3, <1>4 DEF IdentityIsKept, TypeOK, Named, Fresh
<1>12. KeyOpens'
  BY <1>1, <1>2, <1>3, <1>4 DEF KeyOpens, TypeOK, Fresh
<1>13. NoLostUpdate'
  BY <1>1, <1>2, <1>3, <1>4 DEF NoLostUpdate, TypeOK, Named, Fresh, Current, IdentityIsKept
<1> QED
  BY <1>5, <1>6, <1>7, <1>8, <1>9, <1>10, <1>11, <1>12, <1>13

\* What is written adds to what is there.
LEMMA SaveSettingsKeeps ==
  ASSUME Flock, IInv, NEW r \in Runs, SaveSettings(r)
  PROVE  IInv'
<1> USE LockNames DEF IInv
<1>1. /\ at[r] = "save" /\ at'[r] = "saved"
      /\ at' \in [Runs -> Places]
      /\ \A q \in Runs : q # r => at'[q] = at[q]
  BY Moves DEF SaveSettings, Places
<1>2. /\ holder' \in [Locks -> Runs \cup {NoOne}]
      /\ \A l \in Locks : holder[l] # r => holder'[l] = holder[l]
  BY Unlocked DEF SaveSettings
<1>3. /\ settings' \in [by : Runs \cup {NoOne}, map : SUBSET Runs]
      /\ settings'.by = id[r]
      /\ settings'.map = settings.map \cup {r}
  BY <1>1 DEF SaveSettings, TypeOK, Current
<1>4. \A q \in Runs : q # r => at[q] \notin Changing
  BY <1>1 DEF Exclusion
<1>5. UNCHANGED <<keyring, keyFile, reachable, id, pass, store>>
  BY DEF SaveSettings, files
<1>6. TypeOK'
  BY <1>1, <1>2, <1>3, <1>4, <1>5 DEF TypeOK
<1>7. Exclusion'
  BY <1>1, <1>2, <1>3, <1>4, <1>5 DEF Exclusion, TypeOK
<1>8. Named'
  BY <1>1, <1>2, <1>3, <1>4, <1>5 DEF Named, TypeOK, IdentityIsKept
<1>9. Fresh'
  BY <1>1, <1>2, <1>3, <1>4, <1>5 DEF Fresh, TypeOK, Exclusion, Named, KeyOpens, Unset
<1>10. Unset'
  BY <1>1, <1>2, <1>3, <1>4, <1>5 DEF Unset, TypeOK
<1>11. Current'
  <2> SUFFICES ASSUME NEW q \in Runs, at'[q] = "save" PROVE FALSE
    BY DEF Current
  <2> QED
    BY <1>1, <1>4
<1>12. IdentityIsKept'
  BY <1>1, <1>2, <1>3, <1>4, <1>5 DEF IdentityIsKept, TypeOK, Named, Fresh
<1>13. KeyOpens'
  BY <1>1, <1>2, <1>3, <1>4, <1>5 DEF KeyOpens, TypeOK, Fresh
<1>14. NoLostUpdate'
  BY <1>1, <1>2, <1>3, <1>4, <1>5 DEF NoLostUpdate, TypeOK, Named, Fresh, Current, IdentityIsKept
<1> QED
  BY <1>6, <1>7, <1>8, <1>9, <1>10, <1>11, <1>12, <1>13, <1>14

\* A run that dies leaves the files as they are.
LEMMA DieKeeps ==
  ASSUME Flock, IInv, NEW r \in Runs, Die(r)
  PROVE  IInv'
<1> USE LockNames DEF IInv
<1>1. /\ at'[r] = "over"
      /\ at' \in [Runs -> Places]
      /\ \A q \in Runs : q # r => at'[q] = at[q]
  BY DEF Die, Goes, TypeOK, Places
<1>2. /\ holder' \in [Locks -> Runs \cup {NoOne}]
      /\ \A l \in Locks : holder[l] # r => holder'[l] = holder[l]
  BY Unlocked DEF Die
<1>3. UNCHANGED <<keyring, keyFile, settings, reachable, id, pass, store>>
  BY DEF Die, files
<1>4. TypeOK'
  BY <1>1, <1>2, <1>3 DEF TypeOK
<1>5. Exclusion'
  BY <1>1, <1>2, <1>3 DEF Exclusion, TypeOK
<1>6. Named'
  BY <1>1, <1>2, <1>3 DEF Named, TypeOK, IdentityIsKept
<1>7. Fresh'
  BY <1>1, <1>2, <1>3 DEF Fresh, TypeOK, Exclusion, Named, KeyOpens, Unset
<1>8. Unset'
  BY <1>1, <1>2, <1>3 DEF Unset, TypeOK
<1>9. Current'
  BY <1>1, <1>2, <1>3 DEF Current, TypeOK, Exclusion
<1>10. IdentityIsKept'
  BY <1>1, <1>2, <1>3 DEF IdentityIsKept, TypeOK, Named, Fresh
<1>11. KeyOpens'
  BY <1>1, <1>2, <1>3 DEF KeyOpens, TypeOK, Fresh
<1>12. NoLostUpdate'
  BY <1>1, <1>2, <1>3 DEF NoLostUpdate, TypeOK, Named, Fresh, Current, IdentityIsKept
<1> QED
  BY <1>4, <1>5, <1>6, <1>7, <1>8, <1>9, <1>10, <1>11, <1>12

-----------------------------------------------------------------------------

\* With locks that lock, the invariant holds of every reachable state.
LEMMA Invariance == ASSUME Flock, ~LockMayFail PROVE Spec => []IInv
<1>1. IInv /\ [Next]_vars => IInv'
  <2> SUFFICES ASSUME IInv, [Next]_vars PROVE IInv'
    OBVIOUS
  <2>1. CASE Keyring
    BY <2>1 DEF Keyring, files, IInv, TypeOK, Exclusion, Named, Fresh, Unset, Current, IdentityIsKept,
       KeyOpens, NoLostUpdate
  <2>2. ASSUME NEW r \in Runs, Run(r) PROVE IInv'
    BY <2>2, LockIdentityKeeps, LookPlainKeeps, LookWrappedKeeps, ResolveKeeps, MintKeeps, ReadBackKeeps,
       SaveIdentityKeeps, LockSettingsKeeps, LoadSettingsKeeps, SaveSettingsKeeps, DieKeeps DEF Run
  <2>3. CASE UNCHANGED vars
    BY <2>3 DEF vars, IInv, TypeOK, Exclusion, Named, Fresh, Unset, Current, IdentityIsKept,
       KeyOpens, NoLostUpdate
  <2> QED
    BY <2>1, <2>2, <2>3 DEF Next
<1> QED
  BY <1>1, IInvInit, PTL DEF Spec

\* "never regenerated over an existing file": the identity of a device stays the one
\* every run of it has gone on with.
THEOREM IdentityStays == Flock /\ ~LockMayFail => (Spec => []IdentityIsKept)
<1> SUFFICES ASSUME Flock, ~LockMayFail PROVE Spec => []IdentityIsKept
  OBVIOUS
<1>1. IInv => IdentityIsKept
  BY DEF IInv
<1> QED
  BY <1>1, Invariance, PTL

\* The identity key is never wrapped under a passphrase the keyring does not hold.
THEOREM KeyStaysOpen == Flock /\ ~LockMayFail => (Spec => []KeyOpens)
<1> SUFFICES ASSUME Flock, ~LockMayFail PROVE Spec => []KeyOpens
  OBVIOUS
<1>1. IInv => KeyOpens
  BY DEF IInv
<1> QED
  BY <1>1, Invariance, PTL

\* Every change of a setting that was saved is in the settings, which open under the
\* device's identity.
THEOREM ChangesStay == Flock /\ ~LockMayFail => (Spec => []NoLostUpdate)
<1> SUFFICES ASSUME Flock, ~LockMayFail PROVE Spec => []NoLostUpdate
  OBVIOUS
<1>1. IInv => NoLostUpdate
  BY DEF IInv
<1> QED
  BY <1>1, Invariance, PTL
=============================================================================
