-------------------------- MODULE TierSwitchProofs --------------------------
(***************************************************************************)
(* What is proved about TierSwitch for every set of target tiers, every    *)
(* set of recordings, every number of switches and every choice of faults: *)
(* all the invariants its run checks.  They hold together or not at all:   *)
(* IInv says what each step of the pipeline leaves for the next one, above *)
(* all that from PRAGMA rekey on the target's vault holds the database's   *)
(* key, that the marker is there from before it until the new tier is      *)
(* saved, and that a running app was opened by the tier it has saved.      *)
(***************************************************************************)
EXTENDS TierSwitch, TLAPS

Window == {"promote", "marker", "rewrap"}
Clearing == {"clear_keychain", "clear_gate", "clear_hardware", "clear_master"}
After == {"persist", "save", "unmark"} \cup Clearing

\* The target is one with a key on every step of the encrypted pipeline; on
\* the plaintext one the switch counts as applied after its first step.
Routed ==
    /\ pc \in {"gate", "wrap", "persist", "unmark"} \cup Window => target \in Encrypted
    /\ pc \notin {"idle", "plaintext"} /\ target = "plaintext" => "t0" \in odd
    /\ pc = "plaintext" => target = "plaintext"
    /\ pc # "idle" => dbKey # Plain
    /\ pc \in {"gate", "wrap"} => made < MaxKeys

\* The new key is in the target's vault before the re-key, and the database is
\* under it from the re-key on.
Wrapped ==
    /\ pc \in Window => staged = vault[VaultOf(target)] /\ staged \in 1 .. MaxKeys
    /\ pc \in After /\ target # "plaintext" => vault[VaultOf(target)] = dbKey
    /\ pc \notin {"idle", "gate"} /\ target = "keychain_pw" => gate = TRUE

\* The marker stands, and the configuration in memory names the target.
Announced ==
    /\ pc \in {"rewrap", "persist", "unmark"} => marker = target
    /\ pc = "save" /\ target # "plaintext" => marker = target
    /\ pc \in {"save", "unmark"} \cup Clearing => cfgMem = target

\* The active slot and the recordings, at every step.
ActiveKey ==
    /\ phase = "up" /\ "t0" \notin odd /\ dbKey \notin {Plain, Gone} => active = dbKey
    /\ dbKey = Plain => "exported" \in odd
    /\ "lost" \in odd <=> dbKey = Gone

Followed ==
    odd \cap {"torn", "t0"} = {} =>
        \A r \in Rec : \/ rec[r] \in {Plain, dbKey}
                       \/ pc \in {"marker", "rewrap"} /\ rec[r] = staged

\* A vault gives back the key, or one that did was touched since the re-key.
Kept ==
    odd \cap {"t0", "lost"} = {} =>
        \/ dbKey = Plain
        \/ \E v \in Vaults : vault[v] = dbKey
        \/ "overwritten" \in odd

\* The exceptions of MarkerTells.
Untold == {"t0", "exported", "lost", "overwritten", "ungated", "unsaved", "interrupted"}

\* While the app runs, config.json is behind the memory only between the two
\* steps that change them, and its tier opens the database but from the re-key
\* to the save.
Settled ==
    phase = "up" =>
        /\ pc # "save" /\ "unsaved" \notin odd => cfgMem = cfg
        /\ pc \notin {"persist", "save"} /\ odd \cap Untold = {} => Opens(cfg)

\* Without a running app the configuration in memory is the one on disk, the
\* saved tier or the marker's opens the database, and recovery only comes up
\* after something odd.
Stopped ==
    phase # "up" =>
        /\ cfgMem = cfg
        /\ odd \cap Untold = {} => Opens(cfg) \/ Opens(marker)
        /\ phase = "recovery" => odd \cap Untold # {}

IInv == /\ TypeOK /\ Routed /\ Wrapped /\ Announced /\ ActiveKey /\ Followed
        /\ Stopped /\ Kept /\ Settled

\* The initial states: an installation unlocked under its configured tier.
LEMMA InitIInv == Init => IInv
<1> SUFFICES ASSUME Init PROVE IInv
  OBVIOUS
<1>1. KeyTypes
  BY TierSwitchAssumption DEF Init, KeyTypes, Plain, Empty, Broken, Gone
<1>2. TierTypes
  BY DEF Init, TierTypes, Tier
<1>3. ControlTypes
  BY DEF Init, ControlTypes, Steps
<1>4. Routed
  BY DEF Init, Routed, Window
<1>5. Wrapped
  BY DEF Init, Wrapped, Window, Clearing, After
<1>6. Announced
  BY DEF Init, Announced, Clearing
<1>7. ActiveKey
  BY DEF Init, ActiveKey, Plain, Gone
<1>8. Followed
  BY DEF Init, Followed
<1>9. Stopped
  BY DEF Init, Stopped
<1>10. Kept
  BY DEF Init, Kept, VaultOf, Vaults
<1>11. Settled
  BY DEF Init, Settled, Opens, VaultOf, Vaults
<1> QED
  BY <1>1, <1>2, <1>3, <1>4, <1>5, <1>6, <1>7, <1>8, <1>9, <1>10, <1>11 DEF IInv, TypeOK

\* onSelectTier keeps the invariant.
LEMMA Keeps_onSelectTier ==
    ASSUME IInv, NEW t \in Targets, onSelectTier(t)
    PROVE  IInv'
<1>1. KeyTypes'
  BY DEF IInv, TypeOK, KeyTypes, onSelectTier, disk
<1>2. TierTypes'
  BY TierSwitchAssumption DEF IInv, TypeOK, TierTypes, onSelectTier, disk
<1>3. ControlTypes'
  BY TierSwitchAssumption DEF IInv, TypeOK, ControlTypes, onSelectTier, Tier, Encrypted,
      Steps, NoTier
<1>4. Routed'
  BY TierSwitchAssumption DEF IInv, Routed, onSelectTier, disk, Tier, Window
<1>5. Wrapped'
  BY DEF IInv, Wrapped, onSelectTier, Window, Clearing, After
<1>6. Announced'
  BY DEF IInv, Announced, onSelectTier, Clearing
<1>7. ActiveKey'
  BY DEF IInv, ActiveKey, onSelectTier, disk
<1>8. Followed'
  BY DEF IInv, Followed, onSelectTier, disk
<1>9. Stopped'
  BY DEF IInv, Stopped, onSelectTier
<1>10. Kept'
  BY DEF IInv, Kept, onSelectTier, disk
<1>11. Settled'
  BY DEF IInv, Settled, Opens, onSelectTier, disk
<1> QED
  BY <1>1, <1>2, <1>3, <1>4, <1>5, <1>6, <1>7, <1>8, <1>9, <1>10, <1>11 DEF IInv, TypeOK

\* gateSetPassword keeps the invariant.
LEMMA Keeps_gateSetPassword ==
    ASSUME IInv, NEW ok \in BOOLEAN, gateSetPassword(ok)
    PROVE  IInv'
<1>1. KeyTypes'
  BY TierSwitchAssumption DEF IInv, TypeOK, KeyTypes, gateSetPassword, Stop, Empty
<1>2. TierTypes'
  BY DEF IInv, TypeOK, TierTypes, gateSetPassword, Stop
<1>3. ControlTypes'
  BY DEF IInv, TypeOK, ControlTypes, gateSetPassword, Stop, UngatedBy, Steps, Oddities
<1>4. Routed'
  BY DEF IInv, Routed, gateSetPassword, Stop, Window
<1>5. Wrapped'
  BY DEF IInv, Wrapped, gateSetPassword, Stop, Window, Clearing, After
<1>6. Announced'
  BY DEF IInv, Announced, gateSetPassword, Stop, Clearing
<1>7. ActiveKey'
  BY DEF IInv, ActiveKey, gateSetPassword, UngatedBy
<1>8. Followed'
  BY DEF IInv, Followed, gateSetPassword
<1>9. Stopped'
  BY DEF IInv, TypeOK, ControlTypes, Stopped, gateSetPassword
<1>10. Kept'
  BY DEF IInv, Kept, gateSetPassword
<1>11. Settled'
  BY DEF IInv, Settled, Untold, Opens, gateSetPassword, UngatedBy
<1> QED
  BY <1>1, <1>2, <1>3, <1>4, <1>5, <1>6, <1>7, <1>8, <1>9, <1>10, <1>11 DEF IInv, TypeOK

\* wrapKey keeps the invariant.
LEMMA Keeps_wrapKey ==
    ASSUME IInv, wrapKey
    PROVE  IInv'
<1>1. KeyTypes'
  <2>1. made + 1 \in 1 .. MaxKeys /\ VaultOf(target) \in Vaults
    BY TierSwitchAssumption DEF IInv, TypeOK, KeyTypes, Routed, wrapKey, VaultOf, Vaults
  <2>2. vault' \in [Vaults -> Broken .. MaxKeys]
    BY <2>1, TierSwitchAssumption DEF IInv, TypeOK, KeyTypes, wrapKey, Broken
  <2> QED
    BY <2>1, <2>2, TierSwitchAssumption DEF IInv, TypeOK, KeyTypes, wrapKey, Empty
<1>2. TierTypes'
  BY DEF IInv, TypeOK, TierTypes, wrapKey
<1>3. ControlTypes'
  BY DEF IInv, TypeOK, ControlTypes, wrapKey, Steps, Oddities
<1>4. Routed'
  BY DEF IInv, Routed, wrapKey
<1>5. Wrapped'
  BY TierSwitchAssumption DEF IInv, TypeOK, KeyTypes, Routed, Wrapped, VaultOf, wrapKey,
      Vaults, Clearing, After
<1>6. Announced'
  BY DEF IInv, Announced, wrapKey, Clearing
<1>7. ActiveKey'
  BY DEF IInv, ActiveKey, wrapKey
<1>8. Followed'
  BY DEF IInv, Followed, wrapKey
<1>9. Stopped'
  BY DEF IInv, TypeOK, ControlTypes, Stopped, wrapKey
<1>10. Kept'
  BY DEF IInv, Kept, wrapKey
<1>11. Settled'
  BY DEF IInv, Settled, Untold, Opens, wrapKey
<1> QED
  BY <1>1, <1>2, <1>3, <1>4, <1>5, <1>6, <1>7, <1>8, <1>9, <1>10, <1>11 DEF IInv, TypeOK

\* wrapRefused keeps the invariant.
LEMMA Keeps_wrapRefused ==
    ASSUME IInv, wrapRefused
    PROVE  IInv'
<1>1. KeyTypes'
  <2>1. VaultOf(target) \in Vaults /\ Refused(VaultOf(target)) \subseteq Broken .. MaxKeys
    BY TierSwitchAssumption DEF IInv, TypeOK, KeyTypes, VaultOf, Vaults, Refused, Broken
  <2>2. vault' \in [Vaults -> Broken .. MaxKeys]
    BY <2>1 DEF IInv, TypeOK, KeyTypes, wrapRefused
  <2> QED
    BY <2>2, TierSwitchAssumption DEF IInv, TypeOK, KeyTypes, wrapRefused, Stop, Empty
<1>2. TierTypes'
  BY DEF IInv, TypeOK, TierTypes, wrapRefused, Stop
<1>3. ControlTypes'
  BY DEF IInv, TypeOK, ControlTypes, wrapRefused, Stop, UngatedBy, Steps, Oddities
<1>4. Routed'
  BY DEF IInv, Routed, wrapRefused, Stop, Window
<1>5. Wrapped'
  BY DEF IInv, Wrapped, wrapRefused, Stop, Window, Clearing, After
<1>6. Announced'
  BY DEF IInv, Announced, wrapRefused, Stop, Clearing
<1>7. ActiveKey'
  BY DEF IInv, ActiveKey, wrapRefused, UngatedBy
<1>8. Followed'
  BY DEF IInv, Followed, wrapRefused
<1>9. Stopped'
  BY DEF IInv, TypeOK, ControlTypes, Stopped, wrapRefused
<1>10. Kept'
  BY DEF IInv, Kept, wrapRefused
<1>11. Settled'
  BY DEF IInv, Settled, Untold, Opens, wrapRefused, UngatedBy
<1> QED
  BY <1>1, <1>2, <1>3, <1>4, <1>5, <1>6, <1>7, <1>8, <1>9, <1>10, <1>11 DEF IInv, TypeOK

\* promoteRecordings keeps the invariant.
LEMMA Keeps_promoteRecordings ==
    ASSUME IInv, NEW done \in SUBSET Rec, NEW ok \in BOOLEAN, promoteRecordings(done, ok)
    PROVE  IInv'
<1>1. KeyTypes'
  BY TierSwitchAssumption DEF IInv, TypeOK, KeyTypes, Wrapped, promoteRecordings, Stop,
      Empty, Window
<1>2. TierTypes'
  BY DEF IInv, TypeOK, TierTypes, promoteRecordings, Stop
<1>3. ControlTypes'
  BY DEF IInv, TypeOK, ControlTypes, promoteRecordings, Stop, Steps, Oddities
<1>4. Routed'
  BY DEF IInv, Routed, promoteRecordings, Stop, Window
<1>5. Wrapped'
  BY DEF IInv, Wrapped, promoteRecordings, Stop, Window, Clearing, After
<1>6. Announced'
  BY DEF IInv, Announced, promoteRecordings, Stop, Clearing
<1>7. ActiveKey'
  BY DEF IInv, ActiveKey, promoteRecordings
<1>8. Followed'
  BY DEF IInv, Followed, promoteRecordings
<1>9. Stopped'
  BY DEF IInv, TypeOK, ControlTypes, Stopped, promoteRecordings
<1>10. Kept'
  BY DEF IInv, Kept, promoteRecordings
<1>11. Settled'
  BY DEF IInv, Settled, Opens, promoteRecordings
<1> QED
  BY <1>1, <1>2, <1>3, <1>4, <1>5, <1>6, <1>7, <1>8, <1>9, <1>10, <1>11 DEF IInv, TypeOK

\* tierTransitionMarkerWrite keeps the invariant.
LEMMA Keeps_tierTransitionMarkerWrite ==
    ASSUME IInv, NEW ok \in BOOLEAN, tierTransitionMarkerWrite(ok)
    PROVE  IInv'
<1>1. KeyTypes'
  BY TierSwitchAssumption DEF IInv, TypeOK, KeyTypes, tierTransitionMarkerWrite, Stop, Empty
<1>2. TierTypes'
  BY DEF IInv, TypeOK, TierTypes, tierTransitionMarkerWrite, Stop
<1>3. ControlTypes'
  BY DEF IInv, TypeOK, ControlTypes, tierTransitionMarkerWrite, Stop, Steps, Oddities
<1>4. Routed'
  BY DEF IInv, Routed, tierTransitionMarkerWrite, Stop, Window
<1>5. Wrapped'
  BY DEF IInv, Wrapped, tierTransitionMarkerWrite, Stop, Window, Clearing, After
<1>6. Announced'
  BY DEF IInv, Announced, tierTransitionMarkerWrite, Stop, Clearing
<1>7. ActiveKey'
  BY DEF IInv, ActiveKey, tierTransitionMarkerWrite
<1>8. Followed'
  BY DEF IInv, Followed, tierTransitionMarkerWrite
<1>9. Stopped'
  BY DEF IInv, TypeOK, ControlTypes, Stopped, tierTransitionMarkerWrite
<1>10. Kept'
  BY DEF IInv, Kept, tierTransitionMarkerWrite
<1>11. Settled'
  BY DEF IInv, Settled, Opens, tierTransitionMarkerWrite
<1> QED
  BY <1>1, <1>2, <1>3, <1>4, <1>5, <1>6, <1>7, <1>8, <1>9, <1>10, <1>11 DEF IInv, TypeOK

\* rewrap_one_header keeps the invariant.
LEMMA Keeps_rewrap_one_header ==
    ASSUME IInv, NEW r \in Rec, rewrap_one_header(r)
    PROVE  IInv'
<1>1. KeyTypes'
  BY DEF IInv, TypeOK, KeyTypes, Wrapped, rewrap_one_header, memory, Window
<1>2. TierTypes'
  BY DEF IInv, TypeOK, TierTypes, rewrap_one_header, memory
<1>3. ControlTypes'
  BY DEF IInv, TypeOK, ControlTypes, rewrap_one_header, memory
<1>4. Routed'
  BY DEF IInv, Routed, rewrap_one_header, memory
<1>5. Wrapped'
  BY DEF IInv, Wrapped, rewrap_one_header, memory
<1>6. Announced'
  BY DEF IInv, Announced, rewrap_one_header, memory
<1>7. ActiveKey'
  BY DEF IInv, ActiveKey, rewrap_one_header, memory
<1>8. Followed'
  BY DEF IInv, Followed, rewrap_one_header, memory
<1>9. Stopped'
  BY DEF IInv, TypeOK, ControlTypes, Stopped, rewrap_one_header, memory
<1>10. Kept'
  BY DEF IInv, Kept, rewrap_one_header
<1>11. Settled'
  BY DEF IInv, Settled, Opens, rewrap_one_header, memory
<1> QED
  BY <1>1, <1>2, <1>3, <1>4, <1>5, <1>6, <1>7, <1>8, <1>9, <1>10, <1>11 DEF IInv, TypeOK

\* db_rekey_from_secret keeps the invariant.
LEMMA Keeps_db_rekey_from_secret ==
    ASSUME IInv, db_rekey_from_secret
    PROVE  IInv'
<1>1. KeyTypes'
  BY DEF IInv, TypeOK, KeyTypes, Wrapped, db_rekey_from_secret, Window
<1>2. TierTypes'
  BY DEF IInv, TypeOK, TierTypes, db_rekey_from_secret
<1>3. ControlTypes'
  BY DEF IInv, TypeOK, ControlTypes, db_rekey_from_secret, Steps
<1>4. Routed'
  BY DEF IInv, Routed, Wrapped, db_rekey_from_secret, Plain, Window
<1>5. Wrapped'
  BY DEF IInv, Wrapped, db_rekey_from_secret, Window
<1>6. Announced'
  BY DEF IInv, Announced, db_rekey_from_secret, Clearing
<1>7. ActiveKey'
  BY DEF IInv, Wrapped, ActiveKey, db_rekey_from_secret, Plain, Window, Gone
<1>8. Followed'
  BY DEF IInv, TypeOK, KeyTypes, ControlTypes, ActiveKey, Followed, db_rekey_from_secret,
      Rewrappable, Empty
<1>9. Stopped'
  BY DEF IInv, TypeOK, ControlTypes, Stopped, db_rekey_from_secret
<1>10. Kept'
  BY DEF IInv, Wrapped, Kept, VaultOf, db_rekey_from_secret, Vaults, Window
<1>11. Settled'
  BY DEF IInv, Settled, db_rekey_from_secret
<1> QED
  BY <1>1, <1>2, <1>3, <1>4, <1>5, <1>6, <1>7, <1>8, <1>9, <1>10, <1>11 DEF IInv, TypeOK

\* rekeyFails keeps the invariant.
LEMMA Keeps_rekeyFails ==
    ASSUME IInv, rekeyFails
    PROVE  IInv'
<1>1. KeyTypes'
  BY TierSwitchAssumption DEF IInv, TypeOK, KeyTypes, rekeyFails, Stop, disk, Empty
<1>2. TierTypes'
  BY DEF IInv, TypeOK, TierTypes, rekeyFails, Stop, disk
<1>3. ControlTypes'
  BY DEF IInv, TypeOK, ControlTypes, rekeyFails, Stop, Steps, Oddities
<1>4. Routed'
  BY DEF IInv, Routed, rekeyFails, Stop, Window
<1>5. Wrapped'
  BY DEF IInv, Wrapped, rekeyFails, Stop, Window, Clearing, After
<1>6. Announced'
  BY DEF IInv, Announced, rekeyFails, Stop, Clearing
<1>7. ActiveKey'
  BY DEF IInv, ActiveKey, rekeyFails, disk
<1>8. Followed'
  BY DEF IInv, Followed, rekeyFails
<1>9. Stopped'
  BY DEF IInv, TypeOK, ControlTypes, Stopped, rekeyFails
<1>10. Kept'
  BY DEF IInv, Kept, rekeyFails, disk
<1>11. Settled'
  BY DEF IInv, Settled, Opens, rekeyFails, disk
<1> QED
  BY <1>1, <1>2, <1>3, <1>4, <1>5, <1>6, <1>7, <1>8, <1>9, <1>10, <1>11 DEF IInv, TypeOK

\* persistConfig keeps the invariant.
LEMMA Keeps_persistConfig ==
    ASSUME IInv, persistConfig
    PROVE  IInv'
<1>1. KeyTypes'
  BY DEF IInv, TypeOK, KeyTypes, persistConfig, disk
<1>2. TierTypes'
  BY DEF IInv, TypeOK, TierTypes, persistConfig, disk
<1>3. ControlTypes'
  BY DEF IInv, TypeOK, ControlTypes, persistConfig, Steps
<1>4. Routed'
  BY DEF IInv, Routed, persistConfig, disk
<1>5. Wrapped'
  BY DEF IInv, Wrapped, persistConfig, disk, Window, After
<1>6. Announced'
  BY DEF IInv, Announced, persistConfig, disk
<1>7. ActiveKey'
  BY DEF IInv, ActiveKey, persistConfig, disk
<1>8. Followed'
  BY DEF IInv, Followed, persistConfig, disk
<1>9. Stopped'
  BY DEF IInv, TypeOK, ControlTypes, Stopped, persistConfig
<1>10. Kept'
  BY DEF IInv, Kept, persistConfig, disk
<1>11. Settled'
  BY DEF IInv, Settled, Untold, Opens, persistConfig, disk, Wrapped, After, Routed
<1> QED
  BY <1>1, <1>2, <1>3, <1>4, <1>5, <1>6, <1>7, <1>8, <1>9, <1>10, <1>11 DEF IInv, TypeOK

\* saveConfig keeps the invariant.
LEMMA Keeps_saveConfig ==
    ASSUME IInv, NEW ok \in BOOLEAN, saveConfig(ok)
    PROVE  IInv'
<1>1. KeyTypes'
  BY TierSwitchAssumption DEF IInv, TypeOK, KeyTypes, saveConfig, Stop, Empty
<1>2. TierTypes'
  BY DEF IInv, TypeOK, TierTypes, saveConfig, Stop
<1>3. ControlTypes'
  BY DEF IInv, TypeOK, ControlTypes, saveConfig, Stop, Steps, Oddities
<1>4. Routed'
  BY DEF IInv, TypeOK, TierTypes, ControlTypes, Routed, saveConfig, Stop, Tier, Window
<1>5. Wrapped'
  BY DEF IInv, Wrapped, saveConfig, Stop, Window, Clearing, After
<1>6. Announced'
  BY DEF IInv, Announced, saveConfig, Stop, Clearing
<1>7. ActiveKey'
  BY DEF IInv, ActiveKey, saveConfig
<1>8. Followed'
  BY DEF IInv, Followed, saveConfig
<1>9. Stopped'
  BY DEF IInv, TypeOK, ControlTypes, Stopped, saveConfig
<1>10. Kept'
  BY DEF IInv, Kept, saveConfig
<1>11. Settled'
  BY DEF IInv, TypeOK, ControlTypes, Routed, Announced, Settled, Untold, Opens,
      saveConfig, Wrapped, After, TierTypes, Tier
<1> QED
  BY <1>1, <1>2, <1>3, <1>4, <1>5, <1>6, <1>7, <1>8, <1>9, <1>10, <1>11 DEF IInv, TypeOK

\* clearMarker keeps the invariant.
LEMMA Keeps_clearMarker ==
    ASSUME IInv, NEW ok \in BOOLEAN, clearMarker(ok)
    PROVE  IInv'
<1>1. KeyTypes'
  BY DEF IInv, TypeOK, KeyTypes, clearMarker
<1>2. TierTypes'
  BY DEF IInv, TypeOK, TierTypes, clearMarker
<1>3. ControlTypes'
  BY DEF IInv, TypeOK, ControlTypes, clearMarker, Steps
<1>4. Routed'
  BY DEF IInv, Routed, clearMarker
<1>5. Wrapped'
  BY DEF IInv, Wrapped, clearMarker, Window, After
<1>6. Announced'
  BY DEF IInv, Announced, clearMarker
<1>7. ActiveKey'
  BY DEF IInv, ActiveKey, clearMarker
<1>8. Followed'
  BY DEF IInv, Followed, clearMarker
<1>9. Stopped'
  BY DEF IInv, TypeOK, ControlTypes, Stopped, clearMarker
<1>10. Kept'
  BY DEF IInv, Kept, clearMarker
<1>11. Settled'
  BY DEF IInv, Settled, Opens, clearMarker
<1> QED
  BY <1>1, <1>2, <1>3, <1>4, <1>5, <1>6, <1>7, <1>8, <1>9, <1>10, <1>11 DEF IInv, TypeOK

\* applyAlwaysRekey keeps the invariant.
LEMMA Keeps_applyAlwaysRekey ==
    ASSUME IInv, applyAlwaysRekey
    PROVE  IInv'
<1>1. KeyTypes'
  BY TierSwitchAssumption DEF IInv, TypeOK, KeyTypes, applyAlwaysRekey, Empty
<1>2. TierTypes'
  BY DEF IInv, TypeOK, TierTypes, Routed, applyAlwaysRekey
<1>3. ControlTypes'
  BY DEF IInv, TypeOK, ControlTypes, applyAlwaysRekey, Steps, Oddities
<1>4. Routed'
  BY DEF IInv, Routed, applyAlwaysRekey, Window
<1>5. Wrapped'
  BY DEF IInv, Routed, Wrapped, applyAlwaysRekey, Window
<1>6. Announced'
  BY DEF IInv, Routed, Announced, applyAlwaysRekey
<1>7. ActiveKey'
  BY DEF IInv, ActiveKey, applyAlwaysRekey
<1>8. Followed'
  BY DEF IInv, Followed, applyAlwaysRekey
<1>9. Stopped'
  BY DEF IInv, TypeOK, ControlTypes, Stopped, applyAlwaysRekey
<1>10. Kept'
  BY DEF IInv, Kept, applyAlwaysRekey
<1>11. Settled'
  BY DEF IInv, Settled, Untold, applyAlwaysRekey
<1> QED
  BY <1>1, <1>2, <1>3, <1>4, <1>5, <1>6, <1>7, <1>8, <1>9, <1>10, <1>11 DEF IInv, TypeOK

\* clearKeychainKey keeps the invariant.
LEMMA Keeps_clearKeychainKey ==
    ASSUME IInv, NEW ok \in BOOLEAN, clearKeychainKey(ok)
    PROVE  IInv'
<1>1. KeyTypes'
  BY TierSwitchAssumption DEF IInv, TypeOK, KeyTypes, clearKeychainKey, clearVault,
      Vaults, Empty, Broken
<1>2. TierTypes'
  BY DEF IInv, TypeOK, TierTypes, clearKeychainKey, clearVault
<1>3. ControlTypes'
  BY DEF IInv, TypeOK, ControlTypes, clearKeychainKey, clearVault, Steps
<1>4. Routed'
  BY DEF IInv, Routed, clearKeychainKey, clearVault, Window
<1>5. Wrapped'
  BY DEF IInv, Wrapped, clearKeychainKey, clearVault, Cleared, Window, Clearing, After
<1>6. Announced'
  BY DEF IInv, Announced, clearKeychainKey, clearVault, Clearing
<1>7. ActiveKey'
  BY DEF IInv, ActiveKey, clearKeychainKey, clearVault
<1>8. Followed'
  BY DEF IInv, Followed, clearKeychainKey, clearVault
<1>9. Stopped'
  BY DEF IInv, TypeOK, ControlTypes, Stopped, clearKeychainKey, clearVault
<1>10. Kept'
  BY DEF IInv, Routed, Wrapped, Kept, VaultOf, clearKeychainKey, clearVault, Cleared,
      Vaults, Clearing, After
<1>11. Settled'
  BY DEF IInv, Routed, Announced, Settled, Untold, Opens, clearKeychainKey, clearVault,
      Cleared, Clearing
<1> QED
  BY <1>1, <1>2, <1>3, <1>4, <1>5, <1>6, <1>7, <1>8, <1>9, <1>10, <1>11 DEF IInv, TypeOK

\* clearKeychainGate keeps the invariant.
LEMMA Keeps_clearKeychainGate ==
    ASSUME IInv, NEW ok \in BOOLEAN, clearKeychainGate(ok)
    PROVE  IInv'
<1>1. KeyTypes'
  BY TierSwitchAssumption DEF IInv, TypeOK, KeyTypes, clearKeychainGate, Stop, Empty
<1>2. TierTypes'
  BY DEF IInv, TypeOK, TierTypes, clearKeychainGate, Stop
<1>3. ControlTypes'
  BY DEF IInv, TypeOK, ControlTypes, clearKeychainGate, Stop, Steps
<1>4. Routed'
  BY DEF IInv, Routed, clearKeychainGate, Stop, Window
<1>5. Wrapped'
  BY DEF IInv, TypeOK, Wrapped, clearKeychainGate, Stop, Window, Clearing, After
<1>6. Announced'
  BY DEF IInv, Announced, clearKeychainGate, Stop, Clearing
<1>7. ActiveKey'
  BY DEF IInv, ActiveKey, clearKeychainGate
<1>8. Followed'
  BY DEF IInv, Followed, clearKeychainGate
<1>9. Stopped'
  BY DEF IInv, TypeOK, ControlTypes, Stopped, clearKeychainGate
<1>10. Kept'
  BY DEF IInv, Kept, clearKeychainGate
<1>11. Settled'
  BY DEF IInv, Announced, Settled, Untold, Opens, clearKeychainGate, Clearing
<1> QED
  BY <1>1, <1>2, <1>3, <1>4, <1>5, <1>6, <1>7, <1>8, <1>9, <1>10, <1>11 DEF IInv, TypeOK

\* clearHardwareVault keeps the invariant.
LEMMA Keeps_clearHardwareVault ==
    ASSUME IInv, NEW ok \in BOOLEAN, clearHardwareVault(ok)
    PROVE  IInv'
<1>1. KeyTypes'
  BY TierSwitchAssumption DEF IInv, TypeOK, KeyTypes, clearHardwareVault, clearVault,
      Vaults, Empty, Broken
<1>2. TierTypes'
  BY DEF IInv, TypeOK, TierTypes, clearHardwareVault, clearVault
<1>3. ControlTypes'
  BY DEF IInv, TypeOK, ControlTypes, clearHardwareVault, clearVault, Steps
<1>4. Routed'
  BY DEF IInv, Routed, clearHardwareVault, clearVault, Window
<1>5. Wrapped'
  BY DEF IInv, Wrapped, clearHardwareVault, clearVault, Cleared, Window, Clearing, After
<1>6. Announced'
  BY DEF IInv, Announced, clearHardwareVault, clearVault, Clearing
<1>7. ActiveKey'
  BY DEF IInv, ActiveKey, clearHardwareVault, clearVault
<1>8. Followed'
  BY DEF IInv, Followed, clearHardwareVault, clearVault
<1>9. Stopped'
  BY DEF IInv, TypeOK, ControlTypes, Stopped, clearHardwareVault, clearVault
<1>10. Kept'
  BY DEF IInv, Routed, Wrapped, Kept, VaultOf, clearHardwareVault, clearVault, Cleared,
      Vaults, Clearing, After
<1>11. Settled'
  BY DEF IInv, Routed, Announced, Settled, Untold, Opens, clearHardwareVault, clearVault,
      Cleared, Clearing
<1> QED
  BY <1>1, <1>2, <1>3, <1>4, <1>5, <1>6, <1>7, <1>8, <1>9, <1>10, <1>11 DEF IInv, TypeOK

\* master_password_disable keeps the invariant.
LEMMA Keeps_master_password_disable ==
    ASSUME IInv, master_password_disable
    PROVE  IInv'
<1>1. KeyTypes'
  BY TierSwitchAssumption DEF IInv, TypeOK, KeyTypes, master_password_disable, Stop,
      Vaults, Plain, Empty, Broken
<1>2. TierTypes'
  BY DEF IInv, TypeOK, TierTypes, master_password_disable, Stop
<1>3. ControlTypes'
  BY DEF IInv, TypeOK, ControlTypes, master_password_disable, Stop, Steps, Oddities
<1>4. Routed'
  BY DEF IInv, Routed, master_password_disable, Stop, Window
<1>5. Wrapped'
  BY DEF IInv, Wrapped, master_password_disable, Stop, Window, Clearing, After
<1>6. Announced'
  BY DEF IInv, Announced, master_password_disable, Stop, Clearing
<1>7. ActiveKey'
  BY DEF IInv, ActiveKey, master_password_disable, Downgrades, Exports, Plain, Gone
<1>8. Followed'
  BY DEF IInv, Followed, master_password_disable, Exports, Downgrades
<1>9. Stopped'
  BY DEF IInv, TypeOK, ControlTypes, Stopped, master_password_disable
<1>10. Kept'
  BY DEF IInv, Routed, Wrapped, Kept, VaultOf, master_password_disable, KeepsMaster,
      Cleared, Vaults, Clearing, After
<1>11. Settled'
  BY DEF IInv, Routed, Announced, Settled, Untold, Opens, master_password_disable,
      KeepsMaster, Cleared, Clearing
<1> QED
  BY <1>1, <1>2, <1>3, <1>4, <1>5, <1>6, <1>7, <1>8, <1>9, <1>10, <1>11 DEF IInv, TypeOK

\* masterDisableFails keeps the invariant.
LEMMA Keeps_masterDisableFails ==
    ASSUME IInv, NEW done \in SUBSET Rec, masterDisableFails(done)
    PROVE  IInv'
<1>1. KeyTypes'
  BY TierSwitchAssumption DEF IInv, TypeOK, KeyTypes, masterDisableFails, Stop, Plain, Empty
<1>2. TierTypes'
  BY DEF IInv, TypeOK, TierTypes, masterDisableFails, Stop
<1>3. ControlTypes'
  BY DEF IInv, TypeOK, ControlTypes, masterDisableFails, Stop, Steps, Oddities
<1>4. Routed'
  BY DEF IInv, Routed, masterDisableFails, Stop, Window
<1>5. Wrapped'
  BY DEF IInv, Wrapped, masterDisableFails, Stop, Window, Clearing, After
<1>6. Announced'
  BY DEF IInv, Announced, masterDisableFails, Stop, Clearing
<1>7. ActiveKey'
  BY DEF IInv, ActiveKey, masterDisableFails
<1>8. Followed'
  BY DEF IInv, Followed, masterDisableFails, Foreign, Demotable
<1>9. Stopped'
  BY DEF IInv, TypeOK, ControlTypes, Stopped, masterDisableFails
<1>10. Kept'
  BY DEF IInv, Kept, masterDisableFails
<1>11. Settled'
  BY DEF IInv, Settled, Opens, masterDisableFails
<1> QED
  BY <1>1, <1>2, <1>3, <1>4, <1>5, <1>6, <1>7, <1>8, <1>9, <1>10, <1>11 DEF IInv, TypeOK

\* swapFails keeps the invariant.
LEMMA Keeps_swapFails ==
    ASSUME IInv, swapFails
    PROVE  IInv'
<1>1. KeyTypes'
  BY TierSwitchAssumption DEF IInv, TypeOK, KeyTypes, swapFails, Stop, Plain, Empty
<1>2. TierTypes'
  BY DEF IInv, TypeOK, TierTypes, swapFails, Stop
<1>3. ControlTypes'
  BY DEF IInv, TypeOK, ControlTypes, swapFails, Stop, Steps, Oddities
<1>4. Routed'
  BY DEF IInv, Routed, swapFails, Stop, Window
<1>5. Wrapped'
  BY DEF IInv, Wrapped, swapFails, Stop, Window, Clearing, After
<1>6. Announced'
  BY DEF IInv, Announced, swapFails, Stop, Clearing
<1>7. ActiveKey'
  BY DEF IInv, ActiveKey, swapFails, Plain, Gone
<1>8. Followed'
  BY DEF IInv, Followed, swapFails, Foreign, Demotable
<1>9. Stopped'
  BY DEF IInv, TypeOK, ControlTypes, Stopped, swapFails
<1>10. Kept'
  BY DEF IInv, Kept, swapFails
<1>11. Settled'
  BY DEF IInv, Settled, Untold, swapFails
<1> QED
  BY <1>1, <1>2, <1>3, <1>4, <1>5, <1>6, <1>7, <1>8, <1>9, <1>10, <1>11 DEF IInv, TypeOK

\* A half-deleted master password is not the target's.
LEMMA DisableSpares ==
    ASSUME IInv, NEW reopened \in BOOLEAN, disableFails(reopened), target # "plaintext"
    PROVE  vault'[VaultOf(target)] = vault[VaultOf(target)]
<1>1. vault' = vault \/ vault' = [vault EXCEPT !["master"] = Empty]
  BY DEF disableFails
<1>2. VaultOf(target) # "master"
  BY DEF disableFails, KeepsMaster, Cleared
<1>3. vault \in [Vaults -> Broken .. MaxKeys] /\ VaultOf(target) \in Vaults
  BY DEF IInv, TypeOK, KeyTypes, VaultOf, Vaults
<1> QED
  BY <1>1, <1>2, <1>3

\* disableFails keeps the invariant.
LEMMA Keeps_disableFails ==
    ASSUME IInv, NEW reopened \in BOOLEAN, disableFails(reopened)
    PROVE  IInv'
<1>1. KeyTypes'
  BY TierSwitchAssumption DEF IInv, TypeOK, KeyTypes, disableFails, Stop, Plain, Empty,
      Broken
<1>2. TierTypes'
  BY DEF IInv, TypeOK, TierTypes, disableFails, Stop
<1>3. ControlTypes'
  BY DEF IInv, TypeOK, ControlTypes, disableFails, Stop, Steps, Oddities
<1>4. Routed'
  BY DEF IInv, Routed, disableFails, Stop, Window
<1>5. Wrapped'
  BY DEF IInv, Wrapped, disableFails, Stop, Window, Clearing, After
<1>6. Announced'
  BY DEF IInv, Announced, disableFails, Stop, Clearing
<1>7. ActiveKey'
  BY DEF IInv, ActiveKey, disableFails, Exports, Plain, Gone, Downgrades
<1>8. Followed'
  BY DEF IInv, Followed, disableFails, Foreign, Demotable, Exports, Downgrades
<1>9. Stopped'
  BY DEF IInv, TypeOK, ControlTypes, Stopped, disableFails
<1>10. Kept'
  <2>1. target # "plaintext" => vault'[VaultOf(target)] = vault[VaultOf(target)]
    BY DisableSpares
  <2>2. VaultOf(target) \in Vaults
    BY DEF VaultOf, Vaults
  <2> QED
    BY <2>1, <2>2 DEF IInv, Kept, Routed, Wrapped, disableFails, Clearing, After
<1>11. Settled'
  <2>1. odd' \cap Untold = {} => cfg = target /\ target # "plaintext"
    BY DEF IInv, TypeOK, ControlTypes, Settled, Routed, Announced, Clearing, Untold,
        disableFails
  <2>2. target # "plaintext" => vault'[VaultOf(target)] = vault[VaultOf(target)]
    BY DisableSpares
  <2>3. odd' \cap Untold = {} => dbKey' = dbKey /\ odd' = odd
    BY DEF disableFails, Untold
  <2>4. odd' \cap Untold = {} => Opens(cfg)
    BY <2>3 DEF IInv, TypeOK, ControlTypes, Settled, disableFails
  <2>5. odd' \cap Untold = {} => Opens(cfg)'
    BY <2>1, <2>2, <2>3, <2>4 DEF Opens, disableFails
  <2>6. cfgMem' = cfg' \/ "unsaved" \in odd'
    BY DEF IInv, TypeOK, ControlTypes, Settled, disableFails
  <2> QED
    BY <2>5, <2>6 DEF Settled
<1> QED
  BY <1>1, <1>2, <1>3, <1>4, <1>5, <1>6, <1>7, <1>8, <1>9, <1>10, <1>11 DEF IInv, TypeOK

\* applied keeps the invariant.
LEMMA Keeps_applied ==
    ASSUME IInv, applied
    PROVE  IInv'
<1>1. KeyTypes'
  BY TierSwitchAssumption DEF IInv, TypeOK, KeyTypes, applied, Stop, disk, Empty
<1>2. TierTypes'
  BY DEF IInv, TypeOK, TierTypes, applied, Stop, disk
<1>3. ControlTypes'
  BY DEF IInv, TypeOK, ControlTypes, applied, Stop, Steps
<1>4. Routed'
  BY DEF IInv, Routed, applied, Stop, Window
<1>5. Wrapped'
  BY DEF IInv, Wrapped, applied, Stop, Window, Clearing, After
<1>6. Announced'
  BY DEF IInv, Announced, applied, Stop, Clearing
<1>7. ActiveKey'
  BY DEF IInv, ActiveKey, applied, disk
<1>8. Followed'
  BY DEF IInv, Followed, applied, disk
<1>9. Stopped'
  BY DEF IInv, TypeOK, ControlTypes, Stopped, applied
<1>10. Kept'
  BY DEF IInv, Kept, applied, disk
<1>11. Settled'
  BY DEF IInv, Settled, Opens, applied, disk
<1> QED
  BY <1>1, <1>2, <1>3, <1>4, <1>5, <1>6, <1>7, <1>8, <1>9, <1>10, <1>11 DEF IInv, TypeOK

\* Crash keeps the invariant.
LEMMA Keeps_Crash ==
    ASSUME IInv, Crash
    PROVE  IInv'
<1>1. KeyTypes'
  BY TierSwitchAssumption DEF IInv, TypeOK, KeyTypes, Crash, Stop, Empty
<1>2. TierTypes'
  BY DEF IInv, TypeOK, TierTypes, Crash, Stop
<1>3. ControlTypes'
  BY DEF IInv, TypeOK, ControlTypes, Crash, Stop, UngatedBy, Steps, Oddities
<1>4. Routed'
  BY DEF IInv, Routed, Crash, Stop, Window
<1>5. Wrapped'
  BY DEF IInv, Wrapped, Crash, Stop, Window, Clearing, After
<1>6. Announced'
  BY DEF IInv, Announced, Crash, Stop, Clearing
<1>7. ActiveKey'
  BY DEF IInv, ActiveKey, Crash, UngatedBy
<1>8. Followed'
  BY DEF IInv, Followed, Crash
<1>9. Stopped'
  BY DEF IInv, TypeOK, ControlTypes, Stopped, Crash, Settled, Opens, Untold, UngatedBy,
      Wrapped, Announced, After, Routed, TierTypes, Tier
<1>10. Kept'
  BY DEF IInv, Kept, Crash
<1>11. Settled'
  BY DEF IInv, Settled, Crash
<1> QED
  BY <1>1, <1>2, <1>3, <1>4, <1>5, <1>6, <1>7, <1>8, <1>9, <1>10, <1>11 DEF IInv, TypeOK

\* bootstrap keeps the invariant.
LEMMA Keeps_bootstrap ==
    ASSUME IInv, bootstrap
    PROVE  IInv'
<1>1. KeyTypes'
  <2>1. Opens(cfg') => dbKey # Gone
    <3>1. VaultOf(cfg') \in Vaults
      BY DEF VaultOf, Vaults
    <3>2. vault[VaultOf(cfg')] # Gone
      BY <3>1, TierSwitchAssumption DEF IInv, TypeOK, KeyTypes, Broken, Gone
    <3> QED
      BY <3>2 DEF Opens, Plain, Gone
  <2>2. active' \in Empty .. MaxKeys
    BY <2>1, TierSwitchAssumption DEF IInv, TypeOK, KeyTypes, bootstrap, Empty
  <2> QED
    BY <2>2 DEF IInv, TypeOK, KeyTypes, bootstrap
<1>2. TierTypes'
  BY DEF IInv, TypeOK, TierTypes, bootstrap, Tier
<1>3. ControlTypes'
  BY DEF IInv, TypeOK, ControlTypes, bootstrap, Oddities
<1>4. Routed'
  BY DEF IInv, Routed, bootstrap
<1>5. Wrapped'
  BY DEF IInv, Wrapped, bootstrap
<1>6. Announced'
  BY DEF IInv, TypeOK, ControlTypes, Announced, bootstrap, Clearing
<1>7. ActiveKey'
  BY DEF IInv, ActiveKey, bootstrap
<1>8. Followed'
  BY DEF IInv, Followed, bootstrap
<1>9. Stopped'
  <2> SUFFICES ASSUME phase' # "up" PROVE Stopped'
    BY DEF Stopped
  <2>1. phase' = "recovery" /\ cfgMem' = cfg' /\ ~Opens(cfg')
    BY DEF bootstrap
  <2>2. odd' \cap Untold # {}
    <3> SUFFICES ASSUME odd' \cap Untold = {} PROVE FALSE
      OBVIOUS
    <3>1. odd \cap Untold = {} /\ (marker = NoTier \/ Opens(cfg))
      BY DEF bootstrap, Untold
    <3>2. ~Opens(NoTier)
      BY DEF Opens, NoTier, Encrypted
    <3>3. Opens(cfg)
      BY <3>1, <3>2 DEF IInv, Stopped, bootstrap
    <3>4. ~FallsBack
      BY <3>3 DEF IInv, TypeOK, KeyTypes, FallsBack, Opens, VaultOf, Empty
    <3> QED
      BY <2>1, <3>3, <3>4 DEF bootstrap
  <2> QED
    BY <2>1, <2>2 DEF Stopped
<1>10. Kept'
  BY DEF IInv, Kept, bootstrap
<1>11. Settled'
  BY DEF IInv, Settled, Opens, bootstrap, FallsBack
<1> QED
  BY <1>1, <1>2, <1>3, <1>4, <1>5, <1>6, <1>7, <1>8, <1>9, <1>10, <1>11 DEF IInv, TypeOK

\* quit keeps the invariant.
LEMMA Keeps_quit ==
    ASSUME IInv, quit
    PROVE  IInv'
<1>1. KeyTypes'
  BY DEF IInv, TypeOK, KeyTypes, quit, disk
<1>2. TierTypes'
  BY DEF IInv, TypeOK, TierTypes, quit, disk
<1>3. ControlTypes'
  BY DEF IInv, TypeOK, ControlTypes, quit
<1>4. Routed'
  BY DEF IInv, Routed, quit, disk
<1>5. Wrapped'
  BY DEF IInv, Wrapped, quit, disk
<1>6. Announced'
  BY DEF IInv, Announced, quit, disk
<1>7. ActiveKey'
  BY DEF IInv, ActiveKey, quit, disk
<1>8. Followed'
  BY DEF IInv, Followed, quit, disk
<1>9. Stopped'
  BY DEF IInv, Stopped, quit, disk
<1>10. Kept'
  BY DEF IInv, Kept, quit, disk
<1>11. Settled'
  BY DEF IInv, Stopped, Settled, quit
<1> QED
  BY <1>1, <1>2, <1>3, <1>4, <1>5, <1>6, <1>7, <1>8, <1>9, <1>10, <1>11 DEF IInv, TypeOK

\* retryUnlockUnderDifferentTier keeps the invariant.
LEMMA Keeps_retryUnlockUnderDifferentTier ==
    ASSUME IInv, retryUnlockUnderDifferentTier
    PROVE  IInv'
<1>1. KeyTypes'
  BY DEF IInv, TypeOK, KeyTypes, retryUnlockUnderDifferentTier
<1>2. TierTypes'
  BY DEF IInv, TypeOK, TierTypes, retryUnlockUnderDifferentTier
<1>3. ControlTypes'
  BY DEF IInv, TypeOK, ControlTypes, retryUnlockUnderDifferentTier
<1>4. Routed'
  BY DEF IInv, Routed, retryUnlockUnderDifferentTier
<1>5. Wrapped'
  BY DEF IInv, Wrapped, retryUnlockUnderDifferentTier
<1>6. Announced'
  BY DEF IInv, TypeOK, ControlTypes, Announced, retryUnlockUnderDifferentTier
<1>7. ActiveKey'
  BY DEF IInv, ActiveKey, retryUnlockUnderDifferentTier
<1>8. Followed'
  BY DEF IInv, Followed, retryUnlockUnderDifferentTier
<1>9. Stopped'
  BY DEF IInv, Stopped, retryUnlockUnderDifferentTier
<1>10. Kept'
  BY DEF IInv, Kept, retryUnlockUnderDifferentTier
<1>11. Settled'
  BY DEF IInv, Stopped, Settled, retryUnlockUnderDifferentTier
<1> QED
  BY <1>1, <1>2, <1>3, <1>4, <1>5, <1>6, <1>7, <1>8, <1>9, <1>10, <1>11 DEF IInv, TypeOK

\* Every step, stuttering included, keeps the invariant.
LEMMA NextIInv == IInv /\ [Next]_vars => IInv'
<1> SUFFICES ASSUME IInv, [Next]_vars PROVE IInv'
  OBVIOUS
<1>1. CASE \E t \in Targets : onSelectTier(t)
  BY <1>1, Keeps_onSelectTier
<1>2. CASE \E ok \in BOOLEAN : gateSetPassword(ok)
  BY <1>2, Keeps_gateSetPassword
<1>3. CASE wrapKey
  BY <1>3, Keeps_wrapKey
<1>4. CASE wrapRefused
  BY <1>4, Keeps_wrapRefused
<1>5. CASE \E ok \in BOOLEAN : \E done \in SUBSET Rec : promoteRecordings(done, ok)
  BY <1>5, Keeps_promoteRecordings
<1>6. CASE \E ok \in BOOLEAN : tierTransitionMarkerWrite(ok)
  BY <1>6, Keeps_tierTransitionMarkerWrite
<1>7. CASE \E r \in Rec : rewrap_one_header(r)
  BY <1>7, Keeps_rewrap_one_header
<1>8. CASE db_rekey_from_secret
  BY <1>8, Keeps_db_rekey_from_secret
<1>9. CASE rekeyFails
  BY <1>9, Keeps_rekeyFails
<1>10. CASE persistConfig
  BY <1>10, Keeps_persistConfig
<1>11. CASE \E ok \in BOOLEAN : saveConfig(ok)
  BY <1>11, Keeps_saveConfig
<1>12. CASE \E ok \in BOOLEAN : clearMarker(ok)
  BY <1>12, Keeps_clearMarker
<1>13. CASE applyAlwaysRekey
  BY <1>13, Keeps_applyAlwaysRekey
<1>14. CASE \E ok \in BOOLEAN : clearKeychainKey(ok)
  BY <1>14, Keeps_clearKeychainKey
<1>15. CASE \E ok \in BOOLEAN : clearKeychainGate(ok)
  BY <1>15, Keeps_clearKeychainGate
<1>16. CASE \E ok \in BOOLEAN : clearHardwareVault(ok)
  BY <1>16, Keeps_clearHardwareVault
<1>17. CASE master_password_disable
  BY <1>17, Keeps_master_password_disable
<1>18. CASE \E done \in SUBSET Rec : masterDisableFails(done)
  BY <1>18, Keeps_masterDisableFails
<1>19. CASE applied
  BY <1>19, Keeps_applied
<1>20. CASE Crash
  BY <1>20, Keeps_Crash
<1>21. CASE bootstrap
  BY <1>21, Keeps_bootstrap
<1>22. CASE quit
  BY <1>22, Keeps_quit
<1>23. CASE retryUnlockUnderDifferentTier
  BY <1>23, Keeps_retryUnlockUnderDifferentTier
<1>24. CASE swapFails
  BY <1>24, Keeps_swapFails
<1>25. CASE \E reopened \in BOOLEAN : disableFails(reopened)
  BY <1>25, Keeps_disableFails
<1>26. CASE UNCHANGED vars
  BY <1>26 DEF vars, disk, memory, IInv, TypeOK, KeyTypes, TierTypes, ControlTypes,
      Routed, Wrapped, Announced, ActiveKey, Followed, Stopped, Kept, Settled, Opens
<1> QED
  BY <1>1, <1>2, <1>3, <1>4, <1>5, <1>6, <1>7, <1>8, <1>9, <1>10, <1>11, <1>12, <1>13,
     <1>14, <1>15, <1>16, <1>17, <1>18, <1>19, <1>20, <1>21, <1>22, <1>23, <1>24, <1>25,
     <1>26
  DEF Next

\* In every behaviour the invariant holds in every state.
LEMMA Inductive == Spec => []IInv
  BY InitIInv, NextIInv, PTL DEF Spec

\* Every variable keeps its type: targets are named exactly while the pipeline
\* runs, and it runs only in an open installation.
THEOREM TypeCorrect == Spec => []TypeOK
<1>1. IInv => TypeOK
  BY DEF IInv
<1> QED
  BY <1>1, Inductive, PTL

\* The vaults keep the database's key through every failure and crash of every
\* switch, but for a vault overwritten or spoilt by a switch that did not re-key
\* (then the active slot has it), the plaintext tier and a failed rename.
THEOREM KeyAlwaysKept == Spec => []KeyKept
<1>1. IInv => KeyKept
  BY DEF IInv, Kept, ActiveKey, KeyKept
<1> QED
  BY <1>1, Inductive, PTL

\* At every step the saved tier or the marker's opens the database, but for the
\* seven things MarkerTells names.
THEOREM MarkerTruthful == Spec => []MarkerTells
<1>1. ASSUME IInv, phase = "up", pc \in {"persist", "save"}, target \in Encrypted
      PROVE  Opens(marker)
  BY <1>1 DEF IInv, TypeOK, Wrapped, Announced, Opens, After, Encrypted
<1>2. ASSUME IInv, phase = "up", odd \cap Untold = {} PROVE Opens(cfg) \/ Opens(marker)
  <2>1. CASE pc \in {"persist", "save"}
    <3>1. target \in Encrypted
      BY <1>2, <2>1 DEF IInv, TypeOK, TierTypes, ControlTypes, Routed, Untold, Tier
    <3> QED
      BY <1>1, <1>2, <2>1, <3>1
  <2>2. CASE pc \notin {"persist", "save"}
    BY <1>2, <2>2 DEF IInv, Settled
  <2> QED
    BY <2>1, <2>2
<1>3. ASSUME IInv, phase # "up", odd \cap Untold = {} PROVE Opens(cfg) \/ Opens(marker)
  BY <1>3 DEF IInv, Stopped
<1>4. IInv => MarkerTells
  BY <1>2, <1>3 DEF MarkerTells, Untold
<1> QED
  BY <1>4, Inductive, PTL

\* Recordings end every switch under the database's key, however many there are.
THEOREM RecordingsPlayable == Spec => []RecordingsFollow
<1>1. IInv => RecordingsFollow
  BY DEF IInv, Followed, RecordingsFollow
<1> QED
  BY <1>1, Inductive, PTL

\* The active slot holds the database's key whenever the database is open.
THEOREM ActiveSlotCurrent == Spec => []ActiveIsCurrent
<1>1. IInv => ActiveIsCurrent
  BY DEF IInv, ActiveKey, ActiveIsCurrent
<1> QED
  BY <1>1, Inductive, PTL
=============================================================================
