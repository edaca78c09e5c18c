----------------------------- MODULE TierSwitch -----------------------------
(***************************************************************************)
(* Switching the security tier of a running installation: the apply        *)
(* pipeline of the settings page (settings_sections_security_apply.dart,   *)
(* security_section_logic.dart), SecurityTierSwitcher and its marker file  *)
(* (tier_transition_marker.rs), the re-key of the database and of the      *)
(* recordings (api/app.rs, db/mod.rs, recorder/migrate.rs), the disabling  *)
(* of the master password (api/master_password.rs), and what the next      *)
(* launch makes of it (security_init_controller.dart).  The process may    *)
(* stop between any two steps, and most steps may fail.                    *)
(*                                                                         *)
(* A key is a number: 0 is "no cipher" for a file, -1 "no key" for a       *)
(* vault, -2 a vault that is there and gives no key back, -3 a database    *)
(* file that is gone.  The keychain tier with its password modifier is a tier of its   *)
(* own here, as everywhere the code branches on it.  The user knows every  *)
(* secret.  The biometric copy, the passwords' strength and the reset of   *)
(* the installation are left out; a switch away from an unencrypted        *)
(* database is too, because its outcome is PRAGMA rekey's on a file        *)
(* without a cipher.                                                       *)
(***************************************************************************)
EXTENDS Integers, FiniteSets

CONSTANTS Targets,   \* tiers the user may switch to
          Rec,       \* recordings in the recordings tree
          MaxKeys,   \* bound on the database keys ever made
          Faults     \* faults that may happen: subset of {"fail", "crash"}

Encrypted == {"keychain", "keychain_pw", "hardware", "paranoid"}
Tier == Encrypted \cup {"plaintext"}
Plain == 0
Empty == -1
Broken == -2
Gone == -3
NoTier == "none"

ASSUME TierSwitchAssumption ==
    /\ Targets \subseteq Tier
    /\ MaxKeys \in Nat \ {0}
    /\ Faults \subseteq {"fail", "crash"}

VARIABLES
    \* on disk, in the keychain, in the secure element
    dbKey,    \* the key the database file is encrypted under
    vault,    \* the key each vault can give back
    gate,     \* the keychain password gate is configured
    cfg,      \* security.tier in config.json
    marker,   \* .tier-transition-pending: the target it names
    rec,      \* the key each recording's header is wrapped under
    \* in memory
    phase,    \* "up" (database open), "down", "recovery" (the prompt is shown)
    pc,       \* the next step of the apply pipeline
    target,   \* the tier being applied
    staged,   \* the new key in the SecretStore
    active,   \* the key in the slot app.dbkey.active
    cfgMem,   \* configProvider's copy of security.tier
    \* history and bounds
    odd,      \* what has happened so far, see Oddities
    made      \* keys made so far

disk == <<dbKey, vault, gate, cfg, marker, rec>>
memory == <<phase, pc, target, staged, active, cfgMem>>
vars == <<disk, memory, odd, made>>

Oddities ==
    {"t0",           \* the plaintext tier was applied to an encrypted database
     "lost",         \* the encrypted database was deleted, its copy not renamed
     "overwritten",  \* a vault that held the database's key no longer holds it
     "ungated",      \* the gate of the configured tier was taken back
     "exported",     \* the master password was disabled under another tier
     "torn",         \* a switch ended between re-wrapping and re-keying
     "unsaved",      \* config.json could not be written and is behind the memory
     "interrupted"}  \* a launch found the marker of a switch it could not open
Vaults == {"keychain", "hardware", "master"}

VaultOf(t) == CASE t = "hardware" -> "hardware"
                [] t = "paranoid" -> "master"
                [] OTHER -> "keychain"

\* _unlockByTier with the right secret: does tier t open the database?
Opens(t) ==
    \/ t = "plaintext" /\ dbKey = Plain
    \/ t \in Encrypted /\ vault[VaultOf(t)] = dbKey /\ (t = "keychain_pw" => gate)

Init ==
    /\ dbKey = 1
    /\ cfg \in Encrypted
    /\ vault = [v \in Vaults |-> IF v = VaultOf(cfg) THEN 1 ELSE Empty]
    /\ gate = (cfg = "keychain_pw")
    /\ marker = NoTier
    /\ rec \in [Rec -> {1, Plain}]
    /\ phase = "up"
    /\ pc = "idle"
    /\ target = NoTier
    /\ staged = Empty
    /\ active = 1
    /\ cfgMem = cfg
    /\ odd = {}
    /\ made = 1
-----------------------------------------------------------------------------
(* The apply pipeline.  A step that throws ends it: the staged key is      *)
(* dropped, the toast shows the error.                                     *)

Stop == pc' = "idle" /\ staged' = Empty /\ target' = NoTier

CanFail == "fail" \in Faults

\* confirmCurrentPasswordIfDropping: a switch away from a tier with a
\* password needs something that still verifies the password.
Confirmed(t) ==
    \/ t = cfgMem
    \/ /\ cfgMem = "keychain_pw" => gate
       /\ cfgMem \in {"hardware", "paranoid"} =>
             vault[VaultOf(cfgMem)] \notin {Empty, Broken}

onSelectTier(t) ==
    /\ phase = "up" /\ pc = "idle" /\ dbKey # Plain
    /\ Confirmed(t)
    /\ t = "plaintext" \/ made < MaxKeys
    /\ target' = t
    /\ pc' = CASE t = "plaintext" -> "plaintext"
               [] t = "keychain_pw" -> "gate"
               [] OTHER -> "wrap"
    /\ UNCHANGED <<disk, phase, staged, active, cfgMem, odd, made>>

\* The gate of the configured tier is lost: its password verifies no more.
UngatedBy(g) == IF cfg = "keychain_pw" /\ ~g THEN {"ungated"} ELSE {}

\* gateSetPassword replaces the hash, then the pepper; a pepper that is not
\* stored takes the hash back, whatever was there before.
gateSetPassword(ok) ==
    /\ pc = "gate"
    /\ ok \/ CanFail
    /\ gate' \in IF ok THEN {TRUE} ELSE {gate, FALSE}
    /\ IF ok THEN pc' = "wrap" /\ UNCHANGED <<staged, target, odd>>
             ELSE Stop /\ odd' = odd \cup UngatedBy(gate')
    /\ UNCHANGED <<dbKey, vault, cfg, marker, rec, phase, active, cfgMem, made>>

\* Mutant: the staged key is dropped before the re-key has used it.
wrapKey_Drops ==
    /\ pc = "wrap"
    /\ LET v == VaultOf(target) IN
       /\ made' = made + 1
       /\ vault' = [vault EXCEPT ![v] = made + 1]
       /\ odd' = odd \cup (IF vault[v] = dbKey THEN {"overwritten"} ELSE {})
    /\ pc' = IF target = "paranoid" THEN "promote" ELSE "marker"
    /\ UNCHANGED <<dbKey, gate, cfg, marker, rec, phase, target, staged, active, cfgMem>>

\* stageRandomKey and the vault write of the target, before anything else.
wrapKey ==
    /\ pc = "wrap"
    /\ LET v == VaultOf(target) IN
       /\ staged' = made + 1
       /\ made' = made + 1
       /\ vault' = [vault EXCEPT ![v] = made + 1]
       /\ odd' = odd \cup (IF vault[v] = dbKey THEN {"overwritten"} ELSE {})
    /\ pc' = IF target = "paranoid" THEN "promote" ELSE "marker"
    /\ UNCHANGED <<dbKey, gate, cfg, marker, rec, phase, target, active, cfgMem>>

\* What a refused write leaves behind.  A fresh salt replaces the one that a
\* stored hardware key needs, before the platform is asked to store; enable
\* replaces credentials.kdf before the verifier.  The keychain keeps its entry.
Refused(v) ==
    CASE v = "hardware" -> IF vault[v] = Empty THEN {Empty} ELSE {vault[v], Broken}
      [] v = "master" -> {vault[v], Broken}
      [] OTHER -> {vault[v]}

\* The write is refused: the staged key is dropped and a gate taken back.
wrapRefused ==
    /\ pc = "wrap" /\ CanFail
    /\ Stop
    /\ gate' \in IF target = "keychain_pw" THEN {gate, FALSE} ELSE {gate}
    /\ LET v == VaultOf(target) IN
       \E left \in Refused(v) :
          /\ vault' = [vault EXCEPT ![v] = left]
          /\ odd' = odd \cup UngatedBy(gate')
                        \cup (IF vault[v] = dbKey /\ left # dbKey THEN {"overwritten"} ELSE {})
    /\ UNCHANGED <<dbKey, cfg, marker, rec, phase, active, cfgMem, made>>

\* master_password_enable_to_secret goes on to convert_all_cast_to_lfsr: plain
\* recordings move under the new key one by one; a failure leaves the rest.
promoteRecordings(done, ok) ==
    /\ pc = "promote"
    /\ ok \/ CanFail
    /\ done \subseteq {r \in Rec : rec[r] = Plain}
    /\ ok => done = {r \in Rec : rec[r] = Plain}
    /\ rec' = [r \in Rec |-> IF r \in done THEN staged ELSE rec[r]]
    /\ IF ok THEN pc' = "marker" /\ UNCHANGED <<staged, target, odd>>
             ELSE Stop /\ odd' = odd \cup {"torn"}
    /\ UNCHANGED <<dbKey, vault, gate, cfg, marker, phase, active, cfgMem, made>>

\* Mutant: the switch starts without its marker.
tierTransitionMarkerWrite_Skipped(ok) ==
    /\ pc = "marker" /\ ok
    /\ pc' = "rewrap"
    /\ UNCHANGED <<disk, phase, target, staged, active, cfgMem, odd, made>>

tierTransitionMarkerWrite(ok) ==
    /\ pc = "marker"
    /\ ok \/ CanFail
    /\ marker' = IF ok THEN target ELSE marker
    /\ IF ok THEN pc' = "rewrap" /\ UNCHANGED <<staged, target, odd>>
             ELSE Stop /\ odd' = odd \cup {"torn"}
    /\ UNCHANGED <<dbKey, vault, gate, cfg, rec, phase, active, cfgMem, made>>

\* Mutant: the recordings are not walked.
Rewrappable_None == {}

\* rewrap_all_headers: a header the old key does not open is skipped, and
\* without an active key there is no walk.
Rewrappable == IF active = Empty THEN {} ELSE {r \in Rec : rec[r] = active}

rewrap_one_header(r) ==
    /\ pc = "rewrap"
    /\ r \in Rewrappable
    /\ rec' = [rec EXCEPT ![r] = staged]
    /\ UNCHANGED <<dbKey, vault, gate, cfg, marker, memory, odd, made>>

\* Mutant: the active slot keeps the old key.
db_rekey_from_secret_NoRename ==
    /\ pc = "rewrap"
    /\ Rewrappable = {} /\ dbKey # Gone
    /\ dbKey' = staged
    /\ odd' = odd \ {"overwritten"}
    /\ pc' = "persist"
    /\ UNCHANGED <<vault, gate, cfg, marker, rec, phase, target, staged, active, cfgMem, made>>

\* The walk is over: PRAGMA rekey, then the staged slot becomes the active one.
db_rekey_from_secret ==
    /\ pc = "rewrap"
    /\ Rewrappable = {} /\ dbKey # Gone
    /\ dbKey' = staged
    /\ active' = staged
    /\ odd' = odd \ {"overwritten"}
    /\ pc' = "persist"
    /\ UNCHANGED <<vault, gate, cfg, marker, rec, phase, target, staged, cfgMem, made>>

\* A recording cannot be rewritten, or the PRAGMA fails (an auto-lock closed
\* the database, or it is gone): the marker stays, the staged key is dropped.
rekeyFails ==
    /\ pc = "rewrap" /\ CanFail
    /\ Stop
    /\ odd' = odd \cup {"torn"}
    /\ UNCHANGED <<disk, phase, active, cfgMem, made>>

\* setActive and configProvider.update; an equal tier is not written again.
persistConfig ==
    /\ pc = "persist"
    /\ cfgMem' = target
    /\ pc' = IF cfgMem = target THEN "unmark" ELSE "save"
    /\ UNCHANGED <<disk, phase, target, staged, active, odd, made>>

saveConfig(ok) ==
    /\ pc = "save"
    /\ ok \/ CanFail
    /\ cfg' = IF ok THEN cfgMem ELSE cfg
    /\ IF ok THEN /\ pc' = IF target = "plaintext" THEN "clear_keychain" ELSE "unmark"
                  /\ UNCHANGED <<staged, target>>
             ELSE Stop
    /\ odd' = IF ok THEN odd ELSE odd \cup {"unsaved"}
    /\ UNCHANGED <<dbKey, vault, gate, marker, rec, phase, active, cfgMem, made>>

\* clearMarker logs a failed delete and goes on.
clearMarker(ok) ==
    /\ pc = "unmark"
    /\ ok \/ CanFail
    /\ marker' = IF ok THEN NoTier ELSE marker
    /\ pc' = "clear_keychain"
    /\ UNCHANGED <<dbKey, vault, gate, cfg, rec, phase, target, staged, active, cfgMem, odd, made>>

\* _applyAlwaysRekey, the plaintext target: no re-key, no export.
applyAlwaysRekey ==
    /\ pc = "plaintext"
    /\ marker' \in {NoTier} \cup (IF CanFail THEN {marker} ELSE {})
    /\ active' = Empty
    /\ cfgMem' = "plaintext"
    /\ odd' = odd \cup {"t0"}
    /\ pc' = IF cfgMem = "plaintext" THEN "clear_keychain" ELSE "save"
    /\ UNCHANGED <<dbKey, vault, gate, cfg, rec, phase, target, staged, made>>
-----------------------------------------------------------------------------
(* runVaultClearPlan with the plan of tierVaultClearPlanFor: every vault   *)
(* but the target's, in this order.                                        *)

\* Mutant: the plan has no exception for the target's vault.
Cleared_All(v) == TRUE

Cleared(v) == target = "plaintext" \/ v # VaultOf(target)

\* deleteKey and HardwareTierVault.clear log a failure and go on.
clearVault(v, next, ok) ==
    /\ ok \/ CanFail
    /\ vault' = IF ok /\ Cleared(v) THEN [vault EXCEPT ![v] = Empty] ELSE vault
    /\ pc' = next
    /\ UNCHANGED <<dbKey, gate, cfg, marker, rec, phase, target, staged, active, cfgMem, odd, made>>

clearKeychainKey(ok) == pc = "clear_keychain" /\ clearVault("keychain", "clear_gate", ok)
clearHardwareVault(ok) == pc = "clear_hardware" /\ clearVault("hardware", "clear_master", ok)

\* The gate's clear throws, with or without the hash deleted.
clearKeychainGate(ok) ==
    /\ pc = "clear_gate"
    /\ ok \/ (CanFail /\ target # "keychain_pw")
    /\ gate' \in IF target = "keychain_pw" THEN {gate}
                 ELSE IF ok THEN {FALSE} ELSE {FALSE, gate}
    /\ IF ok THEN pc' = "clear_hardware" /\ UNCHANGED <<staged, target>> ELSE Stop
    /\ UNCHANGED <<dbKey, vault, cfg, marker, rec, phase, active, cfgMem, odd, made>>

\* master_password_disable: with an active key the recordings and then the
\* database, if there is one, are written out in the clear, whatever the target
\* is.  Whether the password is enabled is whether credentials.kdf exists.
Downgrades == active # Empty
Demotable == {r \in Rec : rec[r] = active}
Foreign == {r \in Rec : rec[r] \notin {Plain, active}}
Exports == Downgrades /\ dbKey # Gone
KeepsMaster == ~Cleared("master") \/ vault["master"] = Empty

master_password_disable ==
    /\ pc = "clear_master" /\ ~KeepsMaster
    /\ Downgrades => Foreign = {}
    /\ rec' = IF Downgrades THEN [r \in Rec |-> Plain] ELSE rec
    /\ dbKey' = IF Exports THEN Plain ELSE dbKey
    /\ odd' = odd \cup (IF Exports THEN {"exported"} ELSE {})
    /\ active' = Empty
    /\ vault' = [vault EXCEPT !["master"] = Empty]
    /\ Stop
    /\ UNCHANGED <<gate, cfg, marker, phase, cfgMem, made>>

\* It fails before the files are swapped: the export, or a recording that is
\* under another key.
masterDisableFails(done) ==
    /\ pc = "clear_master" /\ ~KeepsMaster
    /\ CanFail \/ (Downgrades /\ Foreign # {})
    /\ done \subseteq Demotable
    /\ rec' = [r \in Rec |-> IF r \in done THEN Plain ELSE rec[r]]
    /\ Stop
    /\ UNCHANGED <<dbKey, vault, gate, cfg, marker, phase, active, cfgMem, odd, made>>

\* The encrypted database is deleted and its plain copy cannot be renamed; the
\* copy is deleted too.  A process that stops between the two leaves the same
\* to the next launch.
swapFails ==
    /\ pc = "clear_master" /\ ~KeepsMaster /\ CanFail
    /\ Exports /\ Foreign = {}
    /\ rec' = [r \in Rec |-> Plain]
    /\ dbKey' = Gone
    /\ odd' = odd \cup {"lost"}
    /\ Stop
    /\ UNCHANGED <<vault, gate, cfg, marker, phase, active, cfgMem, made>>

\* It fails after the swap: the re-open (the active key stays), or the deletion
\* of the password's files, credentials.kdf before the verifier.
disableFails(reopened) ==
    /\ pc = "clear_master" /\ ~KeepsMaster /\ CanFail
    /\ Downgrades => Foreign = {}
    /\ reopened \/ Exports
    /\ rec' = IF Downgrades THEN [r \in Rec |-> Plain] ELSE rec
    /\ dbKey' = IF Exports THEN Plain ELSE dbKey
    /\ odd' = odd \cup (IF Exports THEN {"exported"} ELSE {})
    /\ active' = IF reopened THEN Empty ELSE active
    /\ vault' \in {vault} \cup (IF reopened THEN {[vault EXCEPT !["master"] = Empty]} ELSE {})
    /\ Stop
    /\ UNCHANGED <<gate, cfg, marker, phase, cfgMem, made>>

applied ==
    /\ pc = "clear_master" /\ KeepsMaster
    /\ Stop
    /\ UNCHANGED <<disk, phase, active, cfgMem, odd, made>>
-----------------------------------------------------------------------------
(* The end of the process, and the next launch.                            *)

Crash ==
    /\ phase = "up"
    /\ "crash" \in Faults \/ pc = "idle"
    /\ phase' = "down"
    /\ Stop
    /\ active' = Empty
    /\ cfgMem' = cfg
    /\ gate' \in IF pc = "gate" THEN {gate, FALSE} ELSE {gate}
    /\ odd' = odd \cup (IF pc \in {"promote", "marker", "rewrap"} THEN {"torn"} ELSE {})
                  \cup UngatedBy(gate')
    /\ UNCHANGED <<dbKey, vault, cfg, marker, rec, made>>

\* The dialog's secret is asked for and there is no key behind it: the dialog
\* closes with an error, the fallback saves the plaintext tier.  Without a
\* database file no tier is tried: the first-launch wizard comes up.
FallsBack ==
    /\ dbKey # Gone
    /\ \/ cfg = "keychain_pw" /\ gate /\ vault["keychain"] = Empty
       \/ cfg = "paranoid" /\ vault["master"] = Empty

\* bootstrap: the marker is logged and deleted, the configured tier unlocks,
\* the readability probe decides between the app and what is called recovery
\* here: the prompt, a dialog whose secret no vault takes, or the wizard.
bootstrap ==
    /\ phase = "down"
    /\ marker' \in {NoTier} \cup (IF CanFail THEN {marker} ELSE {})
    /\ cfg' = IF FallsBack THEN "plaintext" ELSE cfg
    /\ cfgMem' = cfg'
    /\ phase' = IF Opens(cfg') THEN "up" ELSE "recovery"
    /\ active' = IF Opens(cfg') /\ dbKey # Plain THEN dbKey ELSE Empty
    /\ odd' = odd \cup (IF marker # NoTier /\ ~Opens(cfg) THEN {"interrupted"} ELSE {})
    /\ UNCHANGED <<dbKey, vault, gate, rec, pc, target, staged, made>>

\* The configured tier's dialog asks on for a secret that its vault never takes.
AtDialog == cfg \in {"hardware", "paranoid"} /\ vault[VaultOf(cfg)] = Broken

\* The prompt: quit, or try another tier.  The latter forgets the tier; the
\* database file then counts as an orphan, and only the reset is left.
quit ==
    /\ phase = "recovery"
    /\ phase' = "down"
    /\ UNCHANGED <<disk, pc, target, staged, active, cfgMem, odd, made>>

retryUnlockUnderDifferentTier ==
    /\ phase = "recovery" /\ dbKey # Gone /\ ~AtDialog
    /\ cfg' = NoTier
    /\ cfgMem' = NoTier
    /\ UNCHANGED <<dbKey, vault, gate, marker, rec, phase, pc, target, staged, active, odd, made>>
-----------------------------------------------------------------------------
Next ==
    \/ \E t \in Targets : onSelectTier(t)
    \/ \E ok \in BOOLEAN :
         \/ gateSetPassword(ok)
         \/ tierTransitionMarkerWrite(ok)
         \/ saveConfig(ok)
         \/ clearMarker(ok)
         \/ clearKeychainKey(ok)
         \/ clearKeychainGate(ok)
         \/ clearHardwareVault(ok)
         \/ \E done \in SUBSET Rec : promoteRecordings(done, ok)
    \/ wrapKey
    \/ wrapRefused
    \/ \E r \in Rec : rewrap_one_header(r)
    \/ db_rekey_from_secret
    \/ rekeyFails
    \/ persistConfig
    \/ applyAlwaysRekey
    \/ master_password_disable
    \/ \E done \in SUBSET Rec : masterDisableFails(done)
    \/ swapFails
    \/ \E reopened \in BOOLEAN : disableFails(reopened)
    \/ applied
    \/ Crash
    \/ bootstrap
    \/ quit
    \/ retryUnlockUnderDifferentTier

Spec == Init /\ [][Next]_vars
-----------------------------------------------------------------------------
(* Properties.                                                             *)

Steps == {"idle", "gate", "wrap", "promote", "marker", "rewrap", "persist", "save",
          "unmark", "plaintext", "clear_keychain", "clear_gate", "clear_hardware",
          "clear_master"}

KeyTypes ==
    /\ dbKey \in {Gone} \cup 0 .. MaxKeys
    /\ vault \in [Vaults -> Broken .. MaxKeys]
    /\ rec \in [Rec -> 0 .. MaxKeys]
    /\ staged \in Empty .. MaxKeys
    /\ active \in Empty .. MaxKeys
    /\ made \in 1 .. MaxKeys

TierTypes ==
    /\ {cfg, cfgMem, marker, target} \subseteq Tier \cup {NoTier}
    /\ gate \in BOOLEAN

ControlTypes ==
    /\ phase \in {"up", "down", "recovery"}
    /\ pc \in Steps
    /\ (pc = "idle") <=> (target = NoTier)
    /\ pc # "idle" => phase = "up"
    /\ odd \subseteq Oddities

\* Every variable holds a value of its kind; a target is named exactly while
\* the pipeline runs, and it runs only in an open installation.
TypeOK == KeyTypes /\ TierTypes /\ ControlTypes

\* Some vault gives back the key of an encrypted database, whatever step fails
\* and wherever the process stops, or the last switch replaced or spoilt the only
\* vault that did and never came to its re-key (the same vault serves the old
\* and the new tier, or a refused write damaged it); then the active slot still
\* holds the key while the app runs, and it is lost when the app stops.  There
\* are two more ways to lose the data: the plaintext tier deletes every vault and
\* decrypts nothing, and a database whose plain copy could not be renamed is
\* gone.
KeyKept ==
    odd \cap {"t0", "lost"} = {} =>
        \/ dbKey = Plain
        \/ \E v \in Vaults : vault[v] = dbKey
        \/ "overwritten" \in odd /\ (phase = "up" => active = dbKey)

\* What a launch could do with the marker of an interrupted switch: at every
\* step of a switch, after every failed step and wherever the process stops,
\* the saved tier opens the database or the tier the marker names does.  That
\* is weaker than the file's own "its absence is the 'all good' signal" (see
\* SwitchLands), and it does not survive these: a switch to plaintext, a switch
\* away from the master password (both without any fault), a lost database, an
\* overwritten vault, a gate taken back, a config.json that could not be
\* written (a later switch believes the memory), and a launch that found the
\* marker and deleted it unused.
MarkerTells ==
    odd \cap {"t0", "exported", "lost", "overwritten", "ungated", "unsaved", "interrupted"} = {}
        => Opens(cfg) \/ Opens(marker)

\* Between switches every recording can be played: its header is in the clear
\* or wrapped under the database's key.  Only a switch that stops between the
\* first re-wrapped header and PRAGMA rekey leaves others, or one that starts
\* from a session without an active key.
RecordingsFollow ==
    pc = "idle" /\ odd \cap {"torn", "t0"} = {} =>
        \A r \in Rec : rec[r] \in {Plain, dbKey}

\* The active slot holds the database's key while the database is open, also
\* after failed switches: the recorder and the re-open after a lock read it.
ActiveIsCurrent ==
    phase = "up" /\ odd \cap {"t0", "exported", "lost"} = {} =>
        active = (IF dbKey = Plain THEN Empty ELSE dbKey)

\* What the files' contracts say of a switch that reports success: "every
\* transition rekeys the live database under the new key (or drops to plaintext
\* when the target is T0)", and of the marker: "its absence is the 'all good'
\* signal".  So between switches, without a marker, the saved tier opens the
\* database.
SwitchLands == phase = "up" /\ pc = "idle" /\ marker = NoTier => Opens(cfg)
=============================================================================
