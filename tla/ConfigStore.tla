---------------------------- MODULE ConfigStore ----------------------------
(***************************************************************************)
(* The settings: g_config in the memory of the system module, config.ini   *)
(* on the SD card, the ryu:cfg service between them and the overlay        *)
(* (config/config.cpp, config/config_ipc_service.cpp, main.cpp,            *)
(* overlay/source/main.cpp), and the two places of the LDN service that    *)
(* read and write them (ldn/ldn_icommunication.cpp).                       *)
(*                                                                         *)
(* Three threads: the one of ryu:cfg serves the overlay; an IPC thread     *)
(* makes the LDN service of a game's session, and reads g_config without   *)
(* its mutex; a thread of that service finds that P2P does not work, and   *)
(* saves that.  save_config deletes the file, makes a new one and writes   *)
(* it: each step may fail, and the console may be switched off between     *)
(* any two, or in the middle of the write.                                 *)
(*                                                                         *)
(* The settings are Boolean here, "passphrase" for whether there is one;   *)
(* they are kept in the order in which format_config_content writes them.  *)
(* A line cut behind its "=" has an empty value, which parse_bool takes    *)
(* for TRUE; a line cut before it is not read, and the default stays.      *)
(* The overlay changes nothing else: addresses, times and the level of the *)
(* log are only shown, and set by editing the file.                        *)
(***************************************************************************)
EXTENDS Integers, Sequences, Functions

CONSTANTS
  Order,               \* the settings, in the order of the file
  Default,             \* get_default_config
  None                 \* nothing: no value, no file, no session

Settings == Range(Order)
P2p == "disable_p2p"
Passphrase == "passphrase"
\* The toggles of the overlay's submenus.
ServerToggles == {"use_tls"} \cap Settings
LdnToggles == {"enabled", P2p} \cap Settings
DebugToggles == {"debug_enabled", "log_to_file"} \cap Settings
Shown == UNION {[toggles -> BOOLEAN] : toggles \in {{}, ServerToggles, LdnToggles, DebugToggles}}
Hidden == [s \in {} |-> FALSE]
Config == [Settings -> BOOLEAN]
Content == [Settings -> BOOLEAN \cup {None}]

Threads == {"boot", "cfg", "persist"}

ASSUME ConfigStoreAssumption ==
  /\ Default \in Config /\ {P2p, Passphrase} \subseteq Settings
  /\ None \notin BOOLEAN /\ None \notin Content /\ None \notin Threads

VARIABLES
  phase,               \* "off", "boot", "run"
  g_config,
  g_config_mutex,      \* who holds it
  file,                \* what config.ini holds, or None
  step,                \* where each thread is in save_config or ReloadConfig
  buffer,              \* what it is about to write
  gui,                 \* what the overlay shows
  shown,               \* the toggles of the submenu that is open
  input,               \* what has been typed at the keyboard
  session,             \* there is an LDN service
  game_active,         \* SharedState::m_game_active
  m_use_p2p_proxy,
  told,                \* g_config when the overlay last showed "Saved!"
  changed,             \* the settings changed since
  lost,                \* a save or a read has failed, or was cut, since
  relay                \* a failure of P2P has been saved, and not been undone

memory == <<g_config, g_config_mutex>>
overlay == <<gui, shown, input>>
ldn == <<session, game_active, m_use_p2p_proxy>>
history == <<told, changed, lost, relay>>
storeVars == <<phase, memory, file, step, buffer, overlay, ldn, history>>

StoreTypeOK ==
  /\ phase \in {"off", "boot", "run"}
  /\ g_config \in Config /\ g_config_mutex \in Threads \cup {None}
  /\ file \in Content \cup {None}
  /\ step \in [Threads -> {"idle", "delete", "create", "write", "load", "lock"}]
  /\ buffer \in [Threads -> Config]
  /\ gui \in {"closed", "main", "locked", "settings", "keyboard"}
  /\ shown \in Shown /\ input \in {"empty", "partial", "full"}
  /\ session \in BOOLEAN /\ game_active \in BOOLEAN /\ m_use_p2p_proxy \in BOOLEAN
  /\ told \in Config \cup {None}
  /\ changed \subseteq Settings
  /\ lost \in BOOLEAN /\ relay \in BOOLEAN

StoreInit ==
  /\ phase = "off" /\ g_config = Default /\ g_config_mutex = None
  /\ file = None /\ step = [t \in Threads |-> "idle"]
  /\ buffer = [t \in Threads |-> Default]
  /\ gui = "closed" /\ shown = Hidden /\ input = "empty"
  /\ session = FALSE /\ game_active = FALSE /\ m_use_p2p_proxy = FALSE
  /\ told = None /\ changed = {}
  /\ lost = FALSE /\ relay = FALSE

-----------------------------------------------------------------------------
(* config.cpp *)

\* format_config_content, of which the first n lines have been written; the next one may
\* have been cut behind its "=".
Written(config, n, cut) ==
  [s \in Settings |->
     IF \E i \in 1..n : Order[i] = s THEN config[s]
     ELSE IF cut /\ n < Len(Order) /\ Order[n + 1] = s THEN s # Passphrase
     ELSE None]
Blank == [s \in Settings |-> None]

\* parse_config_content over the defaults
Parsed(content) == [s \in Settings |-> IF content[s] = None THEN Default[s] ELSE content[s]]

\* load_config: no file, or one that cannot be read, leaves the defaults.
Load(ok) == IF file = None \/ ~ok THEN Default ELSE Parsed(file)

\* The save of thread t ends; a thread that holds the mutex gives it back.
SaveEnds(t) ==
  /\ step' = [step EXCEPT ![t] = "idle"] /\ buffer' = [buffer EXCEPT ![t] = Default]
  /\ g_config_mutex' = IF g_config_mutex = t THEN None ELSE g_config_mutex

\* DeleteFile's result is not looked at; CreateFile fails while the file is there.
SaveDelete(t) ==
  /\ step[t] = "delete"
  /\ file' \in {file, None}
  /\ step' = [step EXCEPT ![t] = "create"]
  /\ UNCHANGED <<phase, memory, buffer, overlay, ldn, history>>

SaveFails(t) ==
  /\ lost' = TRUE /\ relay' = FALSE
  /\ SaveEnds(t)
  /\ UNCHANGED <<phase, g_config, overlay, ldn, told, changed>>

SaveCreate(t) ==
  /\ step[t] = "create"
  /\ \/ /\ file = None /\ file' = Blank
        /\ step' = [step EXCEPT ![t] = "write"]
        /\ UNCHANGED <<phase, memory, buffer, overlay, ldn, history>>
     \/ UNCHANGED file /\ SaveFails(t)

\* OpenFile and WriteFile: to the end, or up to some line.
SaveWrite(t) ==
  /\ step[t] = "write" /\ file # None
  /\ file' = buffer[t]
  /\ IF t = "cfg"
     THEN told' = buffer[t] /\ changed' = {} /\ lost' = FALSE /\ UNCHANGED relay
     ELSE UNCHANGED <<told, changed, lost>> /\ relay' = (relay \/ t = "persist")
  /\ SaveEnds(t)
  /\ UNCHANGED <<phase, g_config, overlay, ldn>>

Cut(t) == \E n \in 0..Len(Order), cut \in BOOLEAN : file' = Written(buffer[t], n, cut)

SaveWriteFails(t) == step[t] = "write" /\ file # None /\ Cut(t) /\ SaveFails(t)

-----------------------------------------------------------------------------
(* The console is switched on and off. *)

\* InitializeSystemModule: ensure_config_exists.
Boot ==
  /\ phase = "off" /\ phase' = "boot"
  /\ IF file = None
     THEN /\ step' = [step EXCEPT !["boot"] = "delete"]
          /\ buffer' = [buffer EXCEPT !["boot"] = Default]
     ELSE UNCHANGED <<step, buffer>>
  /\ UNCHANGED <<memory, file, overlay, ldn, history>>

\* Main: InitializeConfig, then the services are there.
InitializeConfig ==
  /\ phase = "boot" /\ step["boot"] = "idle" /\ phase' = "run"
  /\ \E ok \in BOOLEAN :
       /\ g_config' = Load(ok)
       /\ lost' = (lost \/ ~ok) /\ relay' = (relay /\ ok)
  /\ UNCHANGED <<g_config_mutex, file, step, buffer, overlay, ldn, told,
                 changed>>

Saving == \E t \in Threads : step[t] \in {"delete", "create", "write"}
PowerOff ==
  /\ phase # "off" /\ phase' = "off"
  /\ \/ \E t \in Threads : step[t] = "write" /\ file # None /\ Cut(t)
     \/ UNCHANGED file
  /\ g_config' = Default /\ g_config_mutex' = None
  /\ step' = [t \in Threads |-> "idle"] /\ buffer' = [t \in Threads |-> Default]
  /\ gui' = "closed" /\ shown' = Hidden /\ input' = "empty"
  /\ session' = FALSE /\ game_active' = FALSE /\ m_use_p2p_proxy' = FALSE
  /\ lost' = (lost \/ Saving)
  /\ relay' = (relay /\ ~Saving)
  /\ UNCHANGED <<told, changed>>

-----------------------------------------------------------------------------
(* The overlay, and the ryu:cfg thread that serves it one call at a time. *)

CfgFree == phase = "run" /\ g_config_mutex = None /\ step["cfg"] = "idle"

\* initServices and MainGui: whether a game is active is asked once.
OpenOverlay ==
  /\ phase = "run" /\ gui = "closed"
  /\ gui' = IF game_active THEN "locked" ELSE "main"
  /\ UNCHANGED <<phase, memory, file, step, buffer, shown, input, ldn, history>>

CloseOverlay ==
  /\ gui # "closed" /\ step["cfg"] = "idle"
  /\ gui' = "closed" /\ shown' = Hidden /\ input' = "empty"
  /\ UNCHANGED <<phase, memory, file, step, buffer, ldn, history>>

GoBack ==
  /\ gui = "settings" /\ gui' = "main" /\ shown' = Hidden
  /\ UNCHANGED <<phase, memory, file, step, buffer, input, ldn, history>>

\* A submenu's toggles show what the Get commands return when it is made.
OpenSettings(toggles) ==
  /\ CfgFree /\ gui = "main" /\ gui' = "settings"
  /\ shown' = [s \in toggles |-> g_config[s]]
  /\ UNCHANGED <<phase, memory, file, step, buffer, input, ldn, history>>
ServerSettingsGui == OpenSettings(ServerToggles)
LdnSettingsGui == OpenSettings(LdnToggles)
DebugSettingsGui == OpenSettings(DebugToggles)

\* A Set command: in memory only.
Set(s, value) ==
  /\ g_config' = [g_config EXCEPT ![s] = value]
  /\ changed' = changed \cup {s}
  /\ relay' = (relay /\ g_config'[P2p])
  /\ UNCHANGED <<phase, g_config_mutex, file, step, buffer, ldn, told, lost>>

\* A toggle turns over what it shows, and calls the Set command with that.
Toggle(s) ==
  /\ CfgFree /\ gui = "settings" /\ s \in DOMAIN shown
  /\ shown' = [shown EXCEPT ![s] = ~@]
  /\ Set(s, ~shown[s])
  /\ UNCHANGED <<gui, input>>

\* Generate Random and Clear Passphrase, of the LDN submenu, which is made anew.
SetPassphrase(value) ==
  /\ CfgFree /\ gui = "settings" /\ DOMAIN shown = LdnToggles
  /\ Set(Passphrase, value)
  /\ shown' = [s \in LdnToggles |-> g_config[s]]
  /\ UNCHANGED <<gui, input>>

\* HexKeyboardGui starts with the passphrase there is.
HexKeyboardGui ==
  /\ CfgFree /\ gui = "settings" /\ DOMAIN shown = LdnToggles
  /\ gui' = "keyboard" /\ input' = IF g_config[Passphrase] THEN "full" ELSE "empty"
  /\ UNCHANGED <<phase, memory, file, step, buffer, shown, ldn, history>>

\* Typing, erasing, clearing, a random one.
HandleInput ==
  /\ gui = "keyboard" /\ input' \in {"empty", "partial", "full"} \ {input}
  /\ UNCHANGED <<phase, memory, file, step, buffer, gui, shown, ldn, history>>

\* "+": eight characters or none are taken, anything else is not.
SavePassphrase ==
  /\ CfgFree /\ gui = "keyboard"
  /\ IF input = "partial"
     THEN UNCHANGED <<phase, memory, file, step, buffer, ldn, history>>
     ELSE Set(Passphrase, input = "full")
  /\ gui' = "settings" /\ input' = "empty"
  /\ UNCHANGED shown

\* "B" with nothing typed.
LeaveKeyboard ==
  /\ gui = "keyboard" /\ input = "empty" /\ gui' = "settings"
  /\ UNCHANGED <<phase, memory, file, step, buffer, shown, input, ldn, history>>

\* The main menu's two buttons.
SaveConfig ==
  /\ CfgFree /\ gui = "main"
  /\ g_config_mutex' = "cfg"
  /\ step' = [step EXCEPT !["cfg"] = "delete"] /\ buffer' = [buffer EXCEPT !["cfg"] = g_config]
  /\ UNCHANGED <<phase, g_config, file, overlay, ldn, history>>

\* ReloadConfig: the defaults first, the file over them, with the mutex held.
ReloadConfig ==
  /\ CfgFree /\ gui = "main"
  /\ g_config_mutex' = "cfg" /\ g_config' = Default
  /\ step' = [step EXCEPT !["cfg"] = "load"]
  /\ UNCHANGED <<phase, file, buffer, overlay, ldn, history>>

ReloadFromFile ==
  /\ step["cfg"] = "load"
  /\ \E ok \in BOOLEAN :
       /\ g_config' = Load(ok)
       /\ lost' = (lost \/ ~ok) /\ relay' = (relay /\ ok)
  /\ SaveEnds("cfg")
  /\ UNCHANGED <<phase, file, overlay, ldn, told, changed>>

-----------------------------------------------------------------------------
(* The LDN service. *)

\* The constructor reads g_config, and does not ask for the mutex.
ConstructService ==
  /\ phase = "run" /\ ~session /\ step["persist"] = "idle"
  /\ session' = TRUE /\ m_use_p2p_proxy' = ~g_config[P2p]
  /\ UNCHANGED <<phase, memory, file, step, buffer, overlay, game_active, history>>

\* Initialize and CleanupSessionResources, in SharedState.
SetGameActive(active) ==
  /\ session /\ game_active # active /\ game_active' = active
  /\ UNCHANGED <<phase, memory, file, step, buffer, overlay, session, m_use_p2p_proxy, history>>

DestroyService ==
  /\ session /\ step["persist"] = "idle"
  /\ session' = FALSE /\ game_active' = FALSE /\ m_use_p2p_proxy' = FALSE
  /\ UNCHANGED <<phase, memory, file, step, buffer, overlay, history>>

\* HandleNetworkErrorPacket (PortUnreachable) and HandleExternalProxyConnect: this session
\* goes over the relay from now on.
P2pFails ==
  /\ m_use_p2p_proxy /\ step["persist"] = "idle"
  /\ m_use_p2p_proxy' = FALSE
  /\ step' = [step EXCEPT !["persist"] = "lock"]
  /\ UNCHANGED <<phase, memory, file, buffer, overlay, session, game_active, history>>

\* Mutation: what is saved is a copy made before the flag was set.
PersistDisableP2pEarly ==
  /\ step["persist"] = "lock" /\ g_config_mutex = None /\ ~g_config[P2p]
  /\ g_config' = [g_config EXCEPT ![P2p] = TRUE] /\ g_config_mutex' = "persist"
  /\ step' = [step EXCEPT !["persist"] = "delete"]
  /\ buffer' = [buffer EXCEPT !["persist"] = g_config]
  /\ changed' = changed \cup {P2p}
  /\ UNCHANGED <<phase, file, overlay, ldn, told, lost, relay>>

\* Mutation: the mutex is not taken.
PersistDisableP2pUnlocked ==
  /\ step["persist"] = "lock" /\ ~g_config[P2p]
  /\ g_config' = [g_config EXCEPT ![P2p] = TRUE]
  /\ step' = [step EXCEPT !["persist"] = "delete"]
  /\ buffer' = [buffer EXCEPT !["persist"] = g_config']
  /\ changed' = changed \cup {P2p}
  /\ UNCHANGED <<phase, g_config_mutex, file, overlay, ldn, told, lost, relay>>

\* The flag is set and the whole of g_config saved, with the mutex held.
PersistDisableP2p ==
  /\ step["persist"] = "lock" /\ g_config_mutex = None /\ ~g_config[P2p]
  /\ g_config' = [g_config EXCEPT ![P2p] = TRUE] /\ g_config_mutex' = "persist"
  /\ step' = [step EXCEPT !["persist"] = "delete"]
  /\ buffer' = [buffer EXCEPT !["persist"] = g_config']
  /\ changed' = changed \cup {P2p}
  /\ UNCHANGED <<phase, file, overlay, ldn, told, lost, relay>>

AlreadyDisabled ==
  /\ step["persist"] = "lock" /\ g_config_mutex = None /\ g_config[P2p]
  /\ step' = [step EXCEPT !["persist"] = "idle"]
  /\ UNCHANGED <<phase, memory, file, buffer, overlay, ldn, history>>

-----------------------------------------------------------------------------
StoreNext ==
  \/ Boot
  \/ InitializeConfig
  \/ PowerOff
  \/ \E t \in Threads : SaveDelete(t)
  \/ \E t \in Threads : SaveCreate(t)
  \/ \E t \in Threads : SaveWrite(t)
  \/ \E t \in Threads : SaveWriteFails(t)
  \/ OpenOverlay
  \/ CloseOverlay
  \/ GoBack
  \/ ServerSettingsGui
  \/ LdnSettingsGui
  \/ DebugSettingsGui
  \/ \E s \in Settings : Toggle(s)
  \/ \E value \in BOOLEAN : SetPassphrase(value)
  \/ HexKeyboardGui
  \/ HandleInput
  \/ SavePassphrase
  \/ LeaveKeyboard
  \/ SaveConfig
  \/ ReloadConfig
  \/ ReloadFromFile
  \/ ConstructService
  \/ \E active \in BOOLEAN : SetGameActive(active)
  \/ DestroyService
  \/ P2pFails
  \/ PersistDisableP2p
  \/ AlreadyDisabled

StoreSpec == StoreInit /\ [][StoreNext]_storeVars

-----------------------------------------------------------------------------
(* Properties. *)

\* A setting that the overlay has shown as "Saved!" and that nobody has changed since keeps its
\* value, over reloads, restarts and saves of other settings, unless a save or a read of the
\* file fails or is cut (format_config_content, parse_config_content, InitializeConfig,
\* ReloadConfig).
SavedSurvives ==
  phase = "run" /\ step["cfg"] # "load" /\ told # None /\ ~lost =>
    \A s \in Settings \ changed : g_config[s] = told[s]

\* Once a failure of P2P has been saved, every session made later starts in relay mode, after
\* a restart too, until the user turns P2P on again (the comment on auto-persist in
\* HandleNetworkErrorPacket).
RelayKept == [][relay /\ ~session => ~m_use_p2p_proxy']_storeVars

\* What the overlay's SaveConfigListItem says: without saving, changes are lost when the
\* console is switched off.
UnsavedIsLost ==
  phase = "boot" /\ file # None /\ told # None /\ ~lost =>
    \A s \in Settings \ {P2p} : file[s] = told[s]

\* What the comment on g_config_mutex says: it is held when g_config is read, so a session
\* never sees the settings half reloaded.
ReadSettled == [][~session /\ session' => step["cfg"] # "load"]_storeVars

\* What MainGui says: the configuration is read-only while a game is active.
LockedWhileActive == [][game_active => g_config' = g_config \/ step["persist"] # "idle"
                                       \/ phase' = "off"]_storeVars
=============================================================================
