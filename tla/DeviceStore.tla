----------------------------- MODULE DeviceStore -----------------------------
(***************************************************************************)
(* What a device keeps on its disk: the identity key (identity.key,        *)
(* wrapped under a passphrase the OS keyring holds) and the settings       *)
(* encrypted under it (settings.enc), as the daemon and the rmdd commands  *)
(* of one OS user run side by side (crates/session/src/identity.rs and     *)
(* settings.rs).                                                           *)
(*                                                                         *)
(* A run loads the identity, or creates it, and then changes one setting   *)
(* of its own: `rmdd set`, a refreshed token or a screencast restore       *)
(* token.  It may die at any step.  An identity, a passphrase and a        *)
(* setting's value are named by the run that made them.  No passphrase     *)
(* comes from the environment or key.env: the keyring is the only source.  *)
(***************************************************************************)
EXTENDS FiniteSets

CONSTANTS
    Runs,     \* processes of the device, each from its start to its end
    Flock,    \* whether lock() locks: on unix it does
    LockMayFail,    \* whether it may fail, as in a configuration that is read-only
    NoOne

ASSUME FlockAssumption == Flock \in BOOLEAN /\ LockMayFail \in BOOLEAN
ASSUME NoOneAssumption == NoOne \notin Runs

VARIABLES
    keyring,    \* the passphrase stored in it
    reachable,  \* whether the keyring answers
    keyFile,    \* identity.key: the identity, and the passphrase it is wrapped under
    settings,   \* settings.enc: the identity it is encrypted under, the changes in it
    holder,     \* of the locks identity.lock and settings.lock
    at,         \* where a run stands
    id,         \* the identity it holds
    pass,       \* the passphrase it has found
    store       \* the settings it has loaded

files == <<keyring, keyFile, settings>>
vars  == <<keyring, reachable, keyFile, settings, holder, at, id, pass, store>>

Plain(i)      == [key |-> i, under |-> NoOne]   \* hex, when no keyring answers
Wrapped(i, p) == [key |-> i, under |-> p]
NoFile   == [key |-> NoOne, under |-> NoOne]
NoStore  == [by |-> NoOne, map |-> {}]

Places == {"off", "look", "resolve", "mint", "read back", "write",
           "loaded", "open", "save", "saved", "over"}
Locks  == {"identity", "settings"}

TypeOK ==
    /\ keyring \in Runs \cup {NoOne}
    /\ reachable \in BOOLEAN
    /\ keyFile \in [key : Runs \cup {NoOne}, under : Runs \cup {NoOne}]
    /\ settings \in [by : Runs \cup {NoOne}, map : SUBSET Runs]
    /\ holder \in [Locks -> Runs \cup {NoOne}]
    /\ at \in [Runs -> Places]
    /\ id \in [Runs -> Runs \cup {NoOne}]
    /\ pass \in [Runs -> Runs \cup {NoOne}]
    /\ store \in [Runs -> SUBSET Runs]

Init ==
    /\ keyring = NoOne /\ reachable \in BOOLEAN
    /\ keyFile = NoFile
    /\ settings = NoStore
    /\ holder = [l \in Locks |-> NoOne]
    /\ at = [r \in Runs |-> "off"]
    /\ id = [r \in Runs |-> NoOne]
    /\ pass = [r \in Runs |-> NoOne]
    /\ store = [r \in Runs |-> {}]

Goes(r, from, to) == at[r] = from /\ at' = [at EXCEPT ![r] = to]

LockMutant(l, r) == UNCHANGED holder   \* mutant: nothing is locked
Lock(l, r) ==
    IF Flock THEN holder[l] = NoOne /\ holder' = [holder EXCEPT ![l] = r]
             ELSE UNCHANGED holder

\* The guard of a lock drops with its file, at the latest when the process ends.
Unlock(r) == holder' = [l \in Locks |-> IF holder[l] = r THEN NoOne ELSE holder[l]]

-----------------------------------------------------------------------------
(* DeviceIdentity::load_or_create.                                          *)

\* A lock that fails does not stop a load (`.ok()`).
LockIdentity(r) ==
    /\ Goes(r, "off", "look")
    /\ Lock("identity", r) \/ (LockMayFail /\ UNCHANGED holder)
    /\ UNCHANGED <<files, reachable, id, pass, store>>

\* No file: a fresh identity, to be saved.  A plaintext one: to be upgraded.
LookPlain(r) ==
    /\ keyFile.under = NoOne
    /\ Goes(r, "look", "resolve")
    /\ id' = [id EXCEPT ![r] = IF keyFile = NoFile THEN r ELSE keyFile.key]
    /\ UNCHANGED <<files, reachable, holder, pass, store>>

Opened(r) == id' = [id EXCEPT ![r] = keyFile.key]

\* resolve_unwrap_passphrase and unwrap_seed: a file that cannot be unwrapped is left alone.
LookWrapped(r) ==
    /\ keyFile.under # NoOne
    /\ IF reachable /\ keyring = keyFile.under
         THEN Goes(r, "look", "loaded") /\ Opened(r)
         ELSE Goes(r, "look", "over") /\ UNCHANGED id
    /\ Unlock(r)
    /\ UNCHANGED <<files, reachable, pass, store>>

\* resolve_wrap_passphrase, get_or_create: the entry there is, or a new one.
Resolve(r) ==
    /\ IF reachable /\ keyring = NoOne
         THEN Goes(r, "resolve", "mint") /\ UNCHANGED pass
         ELSE /\ Goes(r, "resolve", "write")
              /\ pass' = [pass EXCEPT ![r] = IF reachable THEN keyring ELSE NoOne]
    /\ UNCHANGED <<files, reachable, holder, id, store>>

\* set_password: done, accepted and not kept, or refused.
Mint(r) ==
    /\ \/ Goes(r, "mint", "read back") /\ reachable /\ keyring' \in {r, keyring}
       \/ Goes(r, "mint", "write") /\ UNCHANGED keyring
    /\ UNCHANGED <<keyFile, settings, reachable, holder, id, pass, store>>

Kept(r) == IF reachable THEN keyring ELSE NoOne

\* "use what the store holds, not the local value"
ReadBack(r) ==
    /\ Goes(r, "read back", "write")
    /\ pass' = [pass EXCEPT ![r] = Kept(r)]
    /\ UNCHANGED <<files, reachable, holder, id, store>>

\* save_with, by atomic_write_secret: the rename is where it happens.  A plaintext
\* file is rewritten only to be wrapped.
SaveIdentity(r) ==
    /\ Goes(r, "write", "loaded")
    /\ keyFile' = IF pass[r] # NoOne THEN Wrapped(id[r], pass[r])
                  ELSE IF id[r] = r THEN Plain(r) ELSE keyFile
    /\ Unlock(r)
    /\ UNCHANGED <<keyring, settings, reachable, id, pass, store>>

-----------------------------------------------------------------------------
(* The settings: run_settings_command, refresh_and_persist_token and         *)
(* absorb_restore_token are one load-modify-save each.                        *)

LockSettings(r) ==
    /\ Goes(r, "loaded", "open")
    /\ Lock("settings", r)
    /\ UNCHANGED <<files, reachable, id, pass, store>>

\* No file is an empty store; one of another identity does not open.
LoadSettings(r) ==
    /\ IF settings.by \in {NoOne, id[r]}
         THEN /\ Goes(r, "open", "save")
              /\ store' = [store EXCEPT ![r] = settings.map]
              /\ UNCHANGED holder
         ELSE Goes(r, "open", "over") /\ Unlock(r) /\ UNCHANGED store
    /\ UNCHANGED <<files, reachable, id, pass>>

\* save, by atomic_write_secret as well.
SaveSettings(r) ==
    /\ Goes(r, "save", "saved")
    /\ settings' = [by |-> id[r], map |-> store[r] \cup {r}]
    /\ Unlock(r)
    /\ UNCHANGED <<keyring, keyFile, reachable, id, pass, store>>

-----------------------------------------------------------------------------
(* The world.                                                               *)

\* Killed, or failed on a full disk or for want of the settings lock: the temporary file is never looked at again.
Die(r) ==
    /\ at[r] \notin {"off", "saved", "over"}
    /\ Goes(r, at[r], "over")
    /\ Unlock(r)
    /\ UNCHANGED <<files, reachable, id, pass, store>>

\* The keyring is locked with the desktop session, and unlocked with it.
Keyring ==
    /\ reachable' = ~reachable
    /\ UNCHANGED <<files, holder, at, id, pass, store>>

Run(r) ==
    \/ LockIdentity(r) \/ LookPlain(r) \/ LookWrapped(r)
    \/ Resolve(r) \/ Mint(r) \/ ReadBack(r) \/ SaveIdentity(r)
    \/ LockSettings(r) \/ LoadSettings(r) \/ SaveSettings(r)
    \/ Die(r)

Next == Keyring \/ \E r \in Runs : Run(r)

Spec == Init /\ [][Next]_vars

-----------------------------------------------------------------------------

HasIdentity(r) == at[r] \in {"loaded", "open", "save", "saved"}

\* "never regenerated over an existing file" (identity.rs): the identity a run has
\* gone on with is the one on disk, whatever other runs started or died meanwhile.
IdentityIsKept == \A r \in Runs : HasIdentity(r) => keyFile.key = id[r]

\* "a key must only ever be wrapped under a passphrase the keyring has demonstrably
\* persisted" (identity.rs): the file opens whenever the keyring answers.
KeyOpens == keyFile.under # NoOne => keyring = keyFile.under

\* The settings open under the device's identity, and hold every change that was
\* saved: two writers do not "interleave and silently drop one update" (settings.rs).
NoLostUpdate ==
    /\ settings.by # NoOne => settings.by = keyFile.key
    /\ \A r \in Runs : at[r] = "saved" => r \in settings.map
=============================================================================
