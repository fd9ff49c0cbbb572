------------------------------ MODULE Settings ------------------------------
(***************************************************************************)
(* Where the app connects, and with which credentials: what                *)
(* agents/AppController makes of the saved settings, the environment, the  *)
(* NATS CLI contexts and the roster config when it starts, and of the      *)
(* context picker and the address field (qml/RosterView.qml) afterwards.   *)
(* Around it: files that other programs write (scripts/deploy.sh, the NATS *)
(* CLI), and an app that is quit or killed at any time.                    *)
(*                                                                         *)
(* An address keeps how it was written, since only a typed one is          *)
(* normalised. A creds value stands for the file its path names, with the  *)
(* tilde expanded; a context for its name, in the order of the picker.     *)
(* QSettings are on disk when a handler returns: its object is destroyed   *)
(* there. A file that is no JSON object counts as an object without keys.  *)
(***************************************************************************)
EXTENDS Naturals, FiniteSets

CONSTANTS Addresses, NoAddress,
          Typed,           \* addresses the user may type
          Creds, NoCreds,
          Contexts, NoContext,
          ContextFiles,    \* what the file of each context may hold
          ConfigFiles,     \* what each config on disk may hold
          EnvCreds,        \* what $AGENT_CHAT_CREDS may name
          NoFile,
          BuiltInAddress,  \* the initial m_serverUrl
          BundledConfig,   \* config/agents.example.json, in the binary
          Localhost        \* the host that connectToServer() falls back to

Schemes == {"bare", "nats", "tls"}
ConfigsOnDisk == {"env", "local"}   \* $AGENT_CHAT_CONFIG, ./agents.json
Configs == ConfigsOnDisk \cup {"bundled"}
MaybeAddress == Addresses \cup {NoAddress}
MaybeCreds == Creds \cup {NoCreds}
MaybeContext == Contexts \cup {NoContext}
ContextContents == [url : MaybeAddress, creds : MaybeCreds]
ConfigContents == [server : MaybeAddress, creds : MaybeCreds, lists : BOOLEAN]

(* normalizeServerUrl(): a host without a scheme is a plaintext server.    *)
Normalized(a) == [a EXCEPT !.scheme = IF @ = "bare" THEN "nats" ELSE @]

ASSUME AddressAssumption ==
  /\ \A a \in Addresses : a.scheme \in Schemes
  /\ \A a \in Addresses : Normalized(a) \in Addresses
  /\ Typed \subseteq Addresses
  /\ BuiltInAddress \in Addresses /\ NoAddress \notin Addresses
ASSUME NamesAssumption ==
  Contexts \subseteq Nat /\ NoContext \notin Contexts /\ NoCreds \notin Creds
ASSUME FilesAssumption ==
  /\ ContextFiles \in [Contexts -> SUBSET (ContextContents \cup {NoFile})]
  /\ ConfigFiles \in [ConfigsOnDisk -> SUBSET (ConfigContents \cup {NoFile})]
  /\ BundledConfig \in ConfigContents
  /\ NoFile \notin ContextContents \cup ConfigContents

(* The creds each source may name: files are told apart by who names them. *)
CredsOf(c) ==
  {f.creds : f \in ContextFiles[c] \ {NoFile}} \ {NoCreds}
ConfigCreds ==
  {f.creds : f \in (UNION {ConfigFiles[k] : k \in ConfigsOnDisk}) \ {NoFile}}
    \ {NoCreds}
ASSUME CredsAssumption ==
  /\ EnvCreds \subseteq Creds /\ EnvCreds \cap ConfigCreds = {}
  /\ BundledConfig.creds = NoCreds
  /\ \A c \in Contexts :
       /\ CredsOf(c) \cap (EnvCreds \cup ConfigCreds) = {}
       /\ \A d \in Contexts \ {c} : CredsOf(c) \cap CredsOf(d) = {}

VARIABLES settings,      \* QSettings: "server" and "context"
          files,         \* contexts and configs, as they are on disk
          environment,   \* $AGENT_CHAT_CREDS
          app,           \* the controller's fields, while the app runs
          dialed         \* what connectToServer() was last called with

settingsVars == <<settings, files, environment, app, dialed>>
------------------------------------------------------------------------------
NotRunning == [running |-> FALSE]
Fresh == [running |-> TRUE, url |-> BuiltInAddress, urlSet |-> FALSE,
          creds |-> NoCreds, credsFromEnv |-> FALSE,
          contexts |-> {}, selected |-> NoContext, roster |-> "none"]
NotDialed == [host |-> Localhost, tls |-> FALSE, creds |-> NoCreds]

(* connectToServer(): QUrl finds no host in an address without a scheme.   *)
DialTarget(a) ==
  [host |-> IF a.url.scheme = "bare" THEN Localhost ELSE a.url.host,
   tls |-> a.url.scheme = "tls", creds |-> a.creds]

(* The constructor, in its order: the saved server, the environment's      *)
(* creds, the contexts there are, and the saved one of them once more.     *)
RestoreServerAsDefault(a) ==
  IF settings.server = NoAddress THEN a ELSE [a EXCEPT !.url = settings.server]
RestoreServer(a) ==
  IF settings.server = NoAddress THEN a
  ELSE [a EXCEPT !.url = settings.server, !.urlSet = TRUE]
TakeEnvCreds(a) ==
  IF environment = NoCreds THEN a
  ELSE [a EXCEPT !.creds = environment, !.credsFromEnv = TRUE]
ScanContexts(a) ==
  [a EXCEPT !.contexts = {c \in Contexts : files.contexts[c] # NoFile}]

(* applyContext(): creds as the context has them, none included.           *)
ApplyContextBlindly(a, c) ==
  LET f == files.contexts[c]
  IN IF f = NoFile THEN a
     ELSE [a EXCEPT !.url = f.url, !.urlSet = @ \/ f.url # NoAddress,
                    !.creds = f.creds, !.credsFromEnv = FALSE, !.selected = c]
ApplyContextKeepingCreds(a, c) ==
  LET f == files.contexts[c]
  IN IF f = NoFile THEN a
     ELSE [a EXCEPT !.url = IF f.url = NoAddress THEN @ ELSE f.url,
                    !.urlSet = @ \/ f.url # NoAddress,
                    !.creds = IF f.creds = NoCreds THEN @ ELSE f.creds,
                    !.credsFromEnv = FALSE, !.selected = c]
ApplyContext(a, c) ==
  LET f == files.contexts[c]
  IN IF f = NoFile THEN a
     ELSE [a EXCEPT !.url = IF f.url = NoAddress THEN @ ELSE f.url,
                    !.urlSet = @ \/ f.url # NoAddress,
                    !.creds = f.creds, !.credsFromEnv = FALSE, !.selected = c]
ResumeContext(a) ==
  IF settings.context \in a.contexts THEN ApplyContext(a, settings.context)
  ELSE a

(* loadRosterFromJson(): a config that pins a server or lists agents wins. *)
(* Of one that is passed over the creds are taken nevertheless.            *)
Content(k) == IF k = "bundled" THEN BundledConfig ELSE files.configs[k]
WinsByAgents(config) == config.lists
Wins(config) == config.server # NoAddress \/ config.lists
LoadRosterFromJson(a, k) ==
  LET config == Content(k)
  IN [a EXCEPT
        !.url = IF a.urlSet \/ config.server = NoAddress THEN @
                ELSE config.server,
        !.creds = IF a.credsFromEnv \/ config.creds = NoCreds THEN @
                  ELSE config.creds,
        !.roster = IF Wins(config) THEN k ELSE @]

(* loadRoster(): the first config that wins; else the built-in echo agent. *)
TryConfig(a, k) ==
  IF a.roster # "none" \/ Content(k) = NoFile THEN a
  ELSE LoadRosterFromJson(a, k)
LoadRoster(a) ==
  LET loaded == TryConfig(TryConfig(TryConfig(a, "env"), "local"), "bundled")
  IN [loaded EXCEPT !.roster = IF @ = "none" THEN "echo" ELSE @]

Constructed ==
  LoadRoster(ResumeContext(ScanContexts(TakeEnvCreds(RestoreServer(Fresh)))))
------------------------------------------------------------------------------
(* One content for each file, of those it may have.                        *)
Contents(may) ==
  {f \in [DOMAIN may -> UNION {may[k] : k \in DOMAIN may}] :
     \A k \in DOMAIN may : f[k] \in may[k]}

SettingsInit ==
  /\ settings = [server |-> NoAddress, context |-> NoContext]
  /\ files \in [contexts : Contents(ContextFiles),
                configs : Contents(ConfigFiles)]
  /\ environment \in EnvCreds \cup {NoCreds}
  /\ app = NotRunning /\ dialed = NotDialed

(* main() up to Main.qml's onCompleted: construct, load the roster, dial.  *)
Start ==
  /\ ~ app.running
  /\ app' = Constructed /\ dialed' = DialTarget(app')
  /\ UNCHANGED <<settings, files, environment>>

(* Exit, a signal, or a kill.                                              *)
Stop ==
  /\ app.running /\ app' = NotRunning /\ dialed' = NotDialed
  /\ UNCHANGED <<settings, files, environment>>

(* The picker goes through the contexts found at start; useContext() saves *)
(* what it applied. One whose file is gone only says so.                   *)
IsNextContext(a, c) ==
  LET after == {d \in a.contexts : a.selected # NoContext /\ d > a.selected}
      rest == IF after = {} THEN a.contexts ELSE after
  IN c \in rest /\ \A d \in rest : c <= d
PickContext ==
  /\ app.running
  /\ \E c \in app.contexts :
       /\ IsNextContext(app, c) /\ files.contexts[c] # NoFile
       /\ app' = ApplyContext(app, c)
       /\ settings' = [context |-> c, server |-> app'.url]
  /\ UNCHANGED <<files, environment, dialed>>

(* The Connect button: setServerUrl() with what the field holds, which is  *)
(* what the user typed, nothing, or the address in force; then             *)
(* connectToServer().                                                      *)
FieldTexts == Typed \cup {NoAddress} \cup IF app.running THEN {app.url} ELSE {}
Connect(text) ==
  /\ app.running
  /\ IF text = NoAddress \/ Normalized(text) = app.url
     THEN UNCHANGED <<app, settings>>
     ELSE /\ app' = [app EXCEPT !.url = Normalized(text), !.urlSet = TRUE]
          /\ settings' = [settings EXCEPT !.server = Normalized(text)]
  /\ dialed' = DialTarget(app')
  /\ UNCHANGED <<files, environment>>

(* Contexts come and go at any time. Configs and the environment are read  *)
(* at start alone, so they change in between.                              *)
ContextChanges(c) ==
  /\ \E f \in ContextFiles[c] : files' = [files EXCEPT !.contexts[c] = f]
  /\ UNCHANGED <<settings, environment, app, dialed>>
ConfigChanges(k) ==
  /\ ~ app.running
  /\ \E f \in ConfigFiles[k] : files' = [files EXCEPT !.configs[k] = f]
  /\ UNCHANGED <<settings, environment, app, dialed>>
EnvironmentChanges ==
  /\ ~ app.running /\ environment' \in EnvCreds \cup {NoCreds}
  /\ UNCHANGED <<settings, files, app, dialed>>

SettingsNext ==
  \/ Start \/ Stop \/ PickContext
  \/ \E text \in FieldTexts : Connect(text)
  \/ \E c \in Contexts : ContextChanges(c)
  \/ \E k \in ConfigsOnDisk : ConfigChanges(k)
  \/ EnvironmentChanges

SettingsSpec == SettingsInit /\ [][SettingsNext]_settingsVars
------------------------------------------------------------------------------
Apps == [running : {TRUE}, url : Addresses, urlSet : BOOLEAN,
         creds : MaybeCreds, credsFromEnv : BOOLEAN,
         contexts : SUBSET Contexts, selected : MaybeContext,
         roster : Configs \cup {"echo"}]
(* Types; while the app runs it has a roster to show.                      *)
SettingsTypeOK ==
  /\ settings \in [server : MaybeAddress, context : MaybeContext]
  /\ files.contexts \in [Contexts -> ContextContents \cup {NoFile}]
  /\ files.configs \in [ConfigsOnDisk -> ConfigContents \cup {NoFile}]
  /\ environment \in EnvCreds \cup {NoCreds}
  /\ app \in Apps \cup {NotRunning}
  /\ dialed.tls \in BOOLEAN /\ dialed.creds \in MaybeCreds

(* Whenever the app dies, its next start takes up what was chosen last:    *)
(* the context picked is the one applied if it was there to be found, and  *)
(* without one the address is the one saved; a config never takes its      *)
(* place, and the connection was asked for with what is shown.             *)
SavedIsShown ==
  app.running =>
    /\ app.selected =
         IF settings.context \in app.contexts THEN settings.context ELSE NoContext
    /\ app.selected = NoContext =>
         /\ settings.server # NoAddress => app.url = settings.server
         /\ dialed = DialTarget(app)

(* qml/RosterView.qml lines 11-13: the address that the user types "is     *)
(* persisted by AppController, so it sticks across restarts". One that no  *)
(* context names was typed.                                                *)
InContext(a) == \E c \in Contexts : \E f \in ContextFiles[c] \ {NoFile} : f.url = a
TypedSticks ==
  app.running /\ settings.server \in {Normalized(a) : a \in Typed}
      /\ ~ InContext(settings.server) => app.url = settings.server

(* The creds of a context are in force only while it is the one selected,  *)
(* through every pick, restart and change of its file; a context without   *)
(* creds takes those of the last one away.                                 *)
NoForeignCreds ==
  app.running =>
    \A c \in Contexts : app.creds \in CredsOf(c) => app.selected = c

(* The roster is that of the first config that pins a server or lists      *)
(* agents, and so is the address, if nothing the user saved is in force:   *)
(* a server-only config is not passed over for the bundled one.            *)
Usable(k) == Content(k) # NoFile
             /\ (Content(k).server # NoAddress \/ Content(k).lists)
FirstUsable ==
  IF Usable("env") THEN "env" ELSE IF Usable("local") THEN "local"
  ELSE "bundled"
FirstUsableConfig ==
  app.running =>
    /\ app.roster = IF Usable(FirstUsable) THEN FirstUsable ELSE "echo"
    /\ ~ app.urlSet /\ Content(FirstUsable).server # NoAddress =>
         app.url = Content(FirstUsable).server

(* agents/AppController.cpp line 101: $AGENT_CHAT_CREDS "overrides any     *)
(* config value"; lines 239-240: a config's creds are used "unless         *)
(* overridden" by it.                                                      *)
EnvCredsWin ==
  app.running /\ environment # NoCreds => app.creds \notin ConfigCreds
=============================================================================
