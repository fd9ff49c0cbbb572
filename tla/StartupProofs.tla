--------------------------- MODULE StartupProofs ---------------------------
(***************************************************************************)
(* Proofs about Startup and its two components. Of Settings: types, and    *)
(* what is in force after any number of starts. The constructor and        *)
(* loadRoster() build the app in steps; each step has a lemma, from record *)
(* to record, and Constructed is their composition. Of NoteStore: what a   *)
(* scan of any library lists. The app with its note store behaves, as far  *)
(* as the settings go, like Settings: what is proved there holds here.     *)
(***************************************************************************)
EXTENDS Startup, FiniteSetTheorems, SequenceTheorems, Iteration


(* The app while it is being constructed: without a roster at first.       *)
Building == [running : {TRUE}, url : Addresses, urlSet : BOOLEAN,
             creds : MaybeCreds, credsFromEnv : BOOLEAN,
             contexts : SUBSET Contexts, selected : MaybeContext,
             roster : Configs \cup {"none", "echo"}]

StoredOK ==
  /\ settings \in [server : MaybeAddress, context : MaybeContext]
  /\ files \in [contexts : Contents(ContextFiles),
                configs : Contents(ConfigFiles)]
  /\ environment \in EnvCreds \cup {NoCreds}

OwnCreds(a) == \A c \in Contexts : a.creds \in CredsOf(c) => a.selected = c

(* The saved context is the one applied, if it was found; without one the  *)
(* saved address is in force. While the app is being constructed, configs  *)
(* know by urlSet that they come late.                                     *)
Resumed(a) ==
  a.selected =
    IF settings.context \in a.contexts THEN settings.context ELSE NoContext
InForce(a) ==
  a.selected = NoContext /\ settings.server # NoAddress =>
    a.url = settings.server
Saved(a) ==
  a.selected = NoContext /\ settings.server # NoAddress =>
    a.urlSet /\ a.url = settings.server

LEMMA ContextContent ==
  ASSUME StoredOK, NEW c \in Contexts, files.contexts[c] # NoFile
  PROVE  /\ files.contexts[c] \in ContextFiles[c]
         /\ files.contexts[c] \in ContextContents
         /\ files.contexts[c].creds # NoCreds =>
              files.contexts[c].creds \in CredsOf(c)
<1>1. files.contexts \in Contents(ContextFiles)
  BY DEF StoredOK
<1>2. DOMAIN ContextFiles = Contexts
      /\ ContextFiles[c] \subseteq ContextContents \cup {NoFile}
  BY FilesAssumption
<1>3. files.contexts[c] \in ContextFiles[c]
  BY <1>1, <1>2 DEF Contents
<1> QED BY <1>2, <1>3 DEF CredsOf

LEMMA ConfigContent ==
  ASSUME StoredOK, NEW k \in Configs, Content(k) # NoFile
  PROVE  /\ Content(k) \in ConfigContents
         /\ Content(k).creds # NoCreds => Content(k).creds \in ConfigCreds
<1>1. files.configs \in Contents(ConfigFiles)
  BY DEF StoredOK
<1>2. DOMAIN ConfigFiles = ConfigsOnDisk
      /\ \A d \in ConfigsOnDisk :
           ConfigFiles[d] \subseteq ConfigContents \cup {NoFile}
  BY FilesAssumption
<1>3. CASE k = "bundled"
  BY <1>3, FilesAssumption, CredsAssumption DEF Content
<1>4. CASE k \in ConfigsOnDisk
  <2>1. k # "bundled"
    BY <1>4 DEF ConfigsOnDisk
  <2>2. Content(k) = files.configs[k]
    BY <2>1 DEF Content
  <2>3. Content(k) \in ConfigFiles[k]
    BY <1>1, <1>2, <1>4, <2>2 DEF Contents
  <2> QED BY <1>2, <1>4, <2>3 DEF ConfigCreds
<1> QED BY <1>3, <1>4 DEF Configs

(* applyContext() keeps the types, the roster and the contexts found, and  *)
(* takes another context's creds away.                                     *)
LEMMA ApplyContextStep ==
  ASSUME StoredOK, NEW a \in Building, NEW c \in Contexts,
         OwnCreds(a), files.contexts[c] # NoFile
  PROVE  LET b == ApplyContext(a, c)
         IN /\ b \in Building
            /\ b.roster = a.roster /\ b.contexts = a.contexts
            /\ b.selected = c /\ c # NoContext
            /\ OwnCreds(b)
            /\ ~ b.urlSet => b.url = a.url /\ ~ a.urlSet
<1> DEFINE f == files.contexts[c]
           b == ApplyContext(a, c)
<1>1. /\ f \in ContextFiles[c] /\ f \in ContextContents
      /\ f.creds # NoCreds => f.creds \in CredsOf(c)
  BY ContextContent
<1>2. b = [a EXCEPT !.url = IF f.url = NoAddress THEN @ ELSE f.url,
                    !.urlSet = @ \/ f.url # NoAddress,
                    !.creds = f.creds, !.credsFromEnv = FALSE, !.selected = c]
  BY DEF ApplyContext
<1>3. f.url \in MaybeAddress /\ f.creds \in MaybeCreds
  BY <1>1 DEF ContextContents
<1>4. /\ b.url = IF f.url = NoAddress THEN a.url ELSE f.url
      /\ b.urlSet = (a.urlSet \/ f.url # NoAddress)
      /\ b.creds = f.creds /\ b.selected = c /\ b.roster = a.roster
      /\ b.contexts = a.contexts
  BY <1>2 DEF Building
<1>5. b \in Building
  BY <1>2, <1>3 DEF Building, MaybeAddress, MaybeContext
<1>6. OwnCreds(b)
  <2> SUFFICES ASSUME NEW d \in Contexts \ {c}, f.creds \in CredsOf(d)
               PROVE  FALSE
    BY <1>4 DEF OwnCreds
  <2>1. f.creds # NoCreds
    BY DEF CredsOf
  <2>2. f.creds \in CredsOf(c) \cap CredsOf(d)
    BY <1>1, <2>1
  <2> QED BY <2>2, CredsAssumption
<1> QED BY <1>4, <1>5, <1>6, NamesAssumption

(* A config tried: nothing of the user's choice changes, and it becomes    *)
(* the roster's source if none came before it and it is usable.            *)
LEMMA TryConfigStep ==
  ASSUME StoredOK, NEW a \in Building, NEW k \in Configs, OwnCreds(a)
  PROVE  LET b == TryConfig(a, k)
         IN /\ b \in Building
            /\ b.selected = a.selected /\ b.contexts = a.contexts
            /\ b.urlSet = a.urlSet
            /\ a.urlSet => b.url = a.url
            /\ OwnCreds(b)
            /\ a.roster # "none" => b = a
            /\ a.roster = "none" =>
                 b.roster = IF Usable(k) THEN k ELSE "none"
            /\ a.roster = "none" /\ ~ a.urlSet /\ Usable(k)
                 /\ Content(k).server # NoAddress =>
                 b.url = Content(k).server
<1> DEFINE config == Content(k)
           b == TryConfig(a, k)
<1>1. CASE a.roster # "none" \/ config = NoFile
  BY <1>1 DEF TryConfig, Usable
<1>2. CASE a.roster = "none" /\ config # NoFile
  <2>1. config \in ConfigContents
        /\ (config.creds # NoCreds => config.creds \in ConfigCreds)
    BY <1>2, ConfigContent
  <2>2. b = [a EXCEPT
          !.url = IF a.urlSet \/ config.server = NoAddress THEN @
                  ELSE config.server,
          !.creds = IF a.credsFromEnv \/ config.creds = NoCreds THEN @
                    ELSE config.creds,
          !.roster = IF Wins(config) THEN k ELSE @]
    BY <1>2 DEF TryConfig, LoadRosterFromJson
  <2>3. config.server \in MaybeAddress /\ config.creds \in MaybeCreds
    BY <2>1 DEF ConfigContents
  <2>4. /\ b.url = IF a.urlSet \/ config.server = NoAddress THEN a.url
                   ELSE config.server
        /\ b.creds \in {a.creds, config.creds}
        /\ b.roster = IF Wins(config) THEN k ELSE a.roster
        /\ b.selected = a.selected /\ b.urlSet = a.urlSet
        /\ b.contexts = a.contexts
    BY <2>2 DEF Building
  <2>5. b \in Building
    BY <2>2, <2>3 DEF Building, MaybeAddress, MaybeCreds
  <2>6. OwnCreds(b)
    <3>1. ASSUME NEW c \in Contexts, b.creds \in CredsOf(c), b.creds # a.creds
          PROVE  FALSE
      <4>1. b.creds = config.creds /\ b.creds # NoCreds
        BY <2>4, <3>1 DEF CredsOf
      <4>2. b.creds \in CredsOf(c) \cap ConfigCreds
        BY <2>1, <3>1, <4>1
      <4> QED BY <4>2, CredsAssumption
    <3> QED BY <2>4, <3>1 DEF OwnCreds
  <2>7. Wins(config) <=> Usable(k)
    BY <1>2 DEF Wins, Usable
  <2> QED BY <1>2, <2>4, <2>5, <2>6, <2>7
<1> QED BY <1>1, <1>2

(* FirstUsableConfig, of the app as it is being built.                     *)
FromFirstUsable(a) ==
  /\ a.roster = IF Usable(FirstUsable) THEN FirstUsable ELSE "echo"
  /\ ~ a.urlSet /\ Content(FirstUsable).server # NoAddress =>
       a.url = Content(FirstUsable).server

(* loadRoster() of an app without a roster.                                *)
LEMMA LoadRosterStep ==
  ASSUME StoredOK, NEW a \in Building, OwnCreds(a), Resumed(a), Saved(a),
         a.roster = "none"
  PROVE  LET b == LoadRoster(a)
         IN b \in Apps /\ OwnCreds(b) /\ Resumed(b) /\ InForce(b)
            /\ FromFirstUsable(b)
<1> DEFINE x == TryConfig(a, "env")
           y == TryConfig(x, "local")
           z == TryConfig(y, "bundled")
           b == LoadRoster(a)
<1> USE DEF Configs, ConfigsOnDisk
<1>1. /\ x \in Building /\ OwnCreds(x)
      /\ x.selected = a.selected /\ x.contexts = a.contexts
      /\ x.urlSet = a.urlSet
      /\ a.urlSet => x.url = a.url
      /\ x.roster = IF Usable("env") THEN "env" ELSE "none"
      /\ ~ a.urlSet /\ Usable("env") /\ Content("env").server # NoAddress =>
           x.url = Content("env").server
  BY TryConfigStep
<1>2. /\ y \in Building /\ OwnCreds(y)
      /\ y.selected = a.selected /\ y.contexts = a.contexts
      /\ y.urlSet = a.urlSet
      /\ a.urlSet => y.url = a.url
      /\ x.roster # "none" => y = x
      /\ x.roster = "none" =>
           y.roster = IF Usable("local") THEN "local" ELSE "none"
      /\ x.roster = "none" /\ ~ a.urlSet /\ Usable("local")
         /\ Content("local").server # NoAddress =>
             y.url = Content("local").server
  <2> HIDE DEF x
  <2> QED BY <1>1, TryConfigStep
<1>3. /\ z \in Building /\ OwnCreds(z)
      /\ z.selected = a.selected /\ z.contexts = a.contexts
      /\ z.urlSet = a.urlSet
      /\ a.urlSet => z.url = a.url
      /\ y.roster # "none" => z = y
      /\ y.roster = "none" =>
           z.roster = IF Usable("bundled") THEN "bundled" ELSE "none"
      /\ y.roster = "none" /\ ~ a.urlSet /\ Usable("bundled")
         /\ Content("bundled").server # NoAddress =>
             z.url = Content("bundled").server
  <2> HIDE DEF y
  <2> QED BY <1>2, TryConfigStep
<1>4. b = [z EXCEPT !.roster = IF @ = "none" THEN "echo" ELSE @]
  BY DEF LoadRoster
<1>5. ~ Usable("bundled") => Content("bundled").server = NoAddress
  BY FilesAssumption DEF Usable, Content
<1> HIDE DEF x, y, z, b
<1>6. /\ b.url = z.url /\ b.urlSet = z.urlSet
      /\ b.creds = z.creds /\ b.selected = z.selected
      /\ b.contexts = z.contexts
      /\ b.roster = IF z.roster = "none" THEN "echo" ELSE z.roster
  BY <1>3, <1>4 DEF Building
<1>7. b \in Apps
  BY <1>3, <1>4, <1>6 DEF Building, Apps
<1>8. OwnCreds(b)
  BY <1>3, <1>6 DEF OwnCreds
<1>9. Resumed(b) /\ InForce(b)
  BY <1>3, <1>6 DEF Resumed, Saved, InForce
<1>10. FromFirstUsable(b)
  <2>1. CASE Usable("env")
    BY <1>1, <1>2, <1>3, <1>6, <2>1 DEF FromFirstUsable, FirstUsable
  <2>2. CASE ~ Usable("env") /\ Usable("local")
    BY <1>1, <1>2, <1>3, <1>6, <2>2 DEF FromFirstUsable, FirstUsable
  <2>3. CASE ~ Usable("env") /\ ~ Usable("local")
    BY <1>1, <1>2, <1>3, <1>5, <1>6, <2>3 DEF FromFirstUsable, FirstUsable
  <2> QED BY <2>1, <2>2, <2>3
<1> QED BY <1>3, <1>6, <1>7, <1>8, <1>9, <1>10 DEF b

(* The constructor and loadRoster(), whatever is saved and on disk.        *)
LEMMA ConstructedStep ==
  ASSUME StoredOK
  PROVE  /\ Constructed \in Apps
         /\ OwnCreds(Constructed)
         /\ Resumed(Constructed) /\ InForce(Constructed)
         /\ FromFirstUsable(Constructed)
<1> DEFINE a == RestoreServer(Fresh)
           b == TakeEnvCreds(a)
           c == ScanContexts(b)
           d == ResumeContext(c)
<1>1. /\ a \in Building /\ a.creds = NoCreds /\ a.roster = "none"
      /\ a.selected = NoContext /\ Saved(a)
  BY AddressAssumption
  DEF RestoreServer, Fresh, StoredOK, Building, MaybeAddress, MaybeCreds,
      MaybeContext, Saved
<1>2. /\ b \in Building /\ b.creds \in EnvCreds \cup {NoCreds}
      /\ b.roster = "none" /\ b.selected = NoContext /\ Saved(b)
  <2> HIDE DEF a
  <2>1. b.creds \in EnvCreds \cup {NoCreds} /\ EnvCreds \subseteq Creds
    BY <1>1, CredsAssumption DEF TakeEnvCreds, StoredOK, Building
  <2> QED
    BY <1>1, <2>1 DEF TakeEnvCreds, StoredOK, Building, MaybeCreds, Saved
<1>3. OwnCreds(b)
  <2>1. \A k \in Contexts : b.creds \notin CredsOf(k)
    BY <1>2, CredsAssumption DEF CredsOf
  <2> QED BY <2>1 DEF OwnCreds
<1>4. /\ c \in Building /\ c.roster = "none" /\ c.selected = NoContext
      /\ Saved(c) /\ OwnCreds(c)
      /\ c.contexts = {k \in Contexts : files.contexts[k] # NoFile}
  <2> HIDE DEF b
  <2> QED BY <1>2, <1>3 DEF ScanContexts, Building, Saved, OwnCreds
<1>5. /\ d \in Building /\ d.roster = "none"
      /\ Resumed(d) /\ Saved(d) /\ OwnCreds(d)
  <2> HIDE DEF c
  <2>1. CASE settings.context \notin c.contexts
    BY <1>4, <2>1 DEF ResumeContext, Resumed
  <2>2. CASE settings.context \in c.contexts
    <3>1. /\ settings.context \in Contexts
          /\ files.contexts[settings.context] # NoFile
      BY <1>4, <2>2
    <3>2. d = ApplyContext(c, settings.context)
      BY <2>2 DEF ResumeContext
    <3>3. /\ d \in Building /\ d.roster = c.roster
          /\ d.contexts = c.contexts /\ d.selected = settings.context
          /\ settings.context # NoContext /\ OwnCreds(d)
      <4> HIDE DEF d
      <4> QED BY <1>4, <3>1, <3>2, ApplyContextStep
    <3> HIDE DEF d
    <3> QED BY <1>4, <2>2, <3>3 DEF Resumed, Saved
  <2> QED BY <2>1, <2>2
<1>6. Constructed = LoadRoster(d)
  BY DEF Constructed
<1> HIDE DEF d
<1> QED BY <1>5, <1>6, LoadRosterStep
------------------------------------------------------------------------------
(* Inductive: what is on disk, and of a running app where each of its      *)
(* fields comes from.                                                      *)
SettingsInv ==
  /\ StoredOK
  /\ dialed.tls \in BOOLEAN /\ dialed.creds \in MaybeCreds
  /\ app \in Apps \cup {NotRunning}
  /\ app.running =>
       /\ OwnCreds(app) /\ Resumed(app) /\ InForce(app)
       /\ FromFirstUsable(app)
       /\ app.selected = NoContext => dialed = DialTarget(app)

LEMMA RunningApp ==
  /\ \A a : a \in Apps <=> a \in Building /\ a.roster # "none"
  /\ \A a \in Apps : a.running = TRUE
  /\ NotRunning.running = FALSE
<1>1. \A a : a \in Apps => a \in Building /\ a.roster # "none"
  BY DEF Apps, Building, Configs, ConfigsOnDisk
<1>2. \A a : a \in Building /\ a.roster # "none" => a \in Apps
  BY DEF Apps, Building
<1>3. \A a \in Apps : a.running = TRUE
  BY DEF Apps
<1>4. NotRunning.running = FALSE
  BY DEF NotRunning
<1> QED BY <1>1, <1>2, <1>3, <1>4

LEMMA Dialed ==
  ASSUME NEW a \in Apps
  PROVE  /\ DialTarget(a).tls \in BOOLEAN
         /\ DialTarget(a).creds \in MaybeCreds
BY DEF DialTarget, Apps

LEMMA SettingsInvInit == SettingsInit => SettingsInv
<1> SUFFICES ASSUME SettingsInit PROVE SettingsInv
  OBVIOUS
<1>1. StoredOK
  BY DEF SettingsInit, StoredOK, MaybeAddress, MaybeContext
<1>2. dialed.tls \in BOOLEAN /\ dialed.creds \in MaybeCreds
  BY DEF SettingsInit, NotDialed, MaybeCreds
<1> QED BY <1>1, <1>2, RunningApp DEF SettingsInit, SettingsInv

(* The steps.                                                              *)
LEMMA StartInv == SettingsInv /\ Start => SettingsInv'
<1> SUFFICES ASSUME SettingsInv, Start PROVE SettingsInv'
  OBVIOUS
<1>1. StoredOK /\ StoredOK'
  BY DEF SettingsInv, Start, StoredOK
<1>2. /\ app' \in Apps
      /\ OwnCreds(app') /\ Resumed(app') /\ InForce(app')
      /\ FromFirstUsable(app')
      /\ dialed' = DialTarget(app')
  BY <1>1, ConstructedStep DEF Start
<1>3. Resumed(app)' /\ InForce(app)' /\ OwnCreds(app)' /\ FromFirstUsable(app)'
  BY <1>2 DEF Start, Resumed, InForce, OwnCreds, FromFirstUsable,
              FirstUsable, Usable, Content
<1>4. DialTarget(app)' = DialTarget(app')
  BY DEF DialTarget
<1> QED BY <1>1, <1>2, <1>3, <1>4, Dialed DEF SettingsInv

LEMMA StopInv == SettingsInv /\ Stop => SettingsInv'
<1> SUFFICES ASSUME SettingsInv, Stop PROVE SettingsInv'
  OBVIOUS
<1>1. StoredOK'
  BY DEF SettingsInv, Stop, StoredOK
<1>2. dialed'.tls \in BOOLEAN /\ dialed'.creds \in MaybeCreds
  BY DEF Stop, NotDialed, MaybeCreds
<1> QED BY <1>1, <1>2, RunningApp DEF SettingsInv, Stop

LEMMA PickInv == SettingsInv /\ PickContext => SettingsInv'
<1> SUFFICES ASSUME SettingsInv, PickContext PROVE SettingsInv'
  OBVIOUS
<1>1. app \in Apps /\ app \in Building /\ StoredOK
      /\ OwnCreds(app) /\ FromFirstUsable(app)
  BY RunningApp DEF SettingsInv, PickContext
<1>2. PICK c \in app.contexts :
        /\ files.contexts[c] # NoFile
        /\ app' = ApplyContext(app, c)
        /\ settings' = [context |-> c, server |-> app'.url]
  BY DEF PickContext
<1>3. c \in Contexts /\ c # NoContext
  BY <1>1, NamesAssumption DEF Apps
<1>4. /\ app' \in Building /\ app'.roster = app.roster /\ app'.selected = c
      /\ app'.contexts = app.contexts /\ OwnCreds(app')
      /\ ~ app'.urlSet => app'.url = app.url /\ ~ app.urlSet
  BY <1>1, <1>2, <1>3, ApplyContextStep
<1>5. app' \in Apps
  BY <1>1, <1>4, RunningApp
<1>6. StoredOK'
  BY <1>1, <1>2, <1>3, <1>5
  DEF PickContext, StoredOK, Apps, MaybeAddress, MaybeContext
<1>7. FromFirstUsable(app)'
  BY <1>1, <1>4 DEF PickContext, FromFirstUsable, FirstUsable, Usable, Content
<1>8. OwnCreds(app)'
  BY <1>4 DEF OwnCreds
<1>9. Resumed(app)' /\ InForce(app)'
  BY <1>2, <1>3, <1>4 DEF Resumed, InForce
<1> QED
  BY <1>3, <1>4, <1>5, <1>6, <1>7, <1>8, <1>9
  DEF SettingsInv, PickContext

LEMMA ConnectInv ==
  ASSUME SettingsInv, NEW text \in FieldTexts, Connect(text)
  PROVE  SettingsInv'
<1>1. app \in Apps /\ app \in Building /\ StoredOK
      /\ OwnCreds(app) /\ Resumed(app) /\ InForce(app)
      /\ FromFirstUsable(app)
  BY RunningApp DEF SettingsInv, Connect
<1>2. dialed' = DialTarget(app')
  BY DEF Connect
<1>3. text \in MaybeAddress
  BY <1>1, AddressAssumption DEF FieldTexts, Apps, MaybeAddress
<1>4. CASE UNCHANGED <<app, settings>>
  <2>1. StoredOK'
    BY <1>1, <1>4 DEF Connect, StoredOK
  <2>2. OwnCreds(app)' /\ Resumed(app)' /\ InForce(app)' /\ FromFirstUsable(app)'
    BY <1>1, <1>4 DEF Connect, OwnCreds, Resumed, InForce, FromFirstUsable,
                      FirstUsable, Usable, Content
  <2>3. DialTarget(app)' = DialTarget(app')
    BY DEF DialTarget
  <2> QED BY <1>1, <1>2, <1>4, <2>1, <2>2, <2>3, Dialed DEF SettingsInv
<1>5. CASE /\ text # NoAddress
           /\ app' = [app EXCEPT !.url = Normalized(text), !.urlSet = TRUE]
           /\ settings' = [settings EXCEPT !.server = Normalized(text)]
  <2>1. Normalized(text) \in Addresses /\ Normalized(text) # NoAddress
    BY <1>3, <1>5, AddressAssumption DEF MaybeAddress
  <2>2. app' \in Apps /\ app'.running
    BY <1>1, <1>5, <2>1 DEF Apps
  <2>3. /\ app'.url = Normalized(text) /\ app'.urlSet = TRUE
        /\ app'.creds = app.creds /\ app'.selected = app.selected
        /\ app'.roster = app.roster /\ app'.contexts = app.contexts
    BY <1>1, <1>5 DEF Apps
  <2>4. /\ StoredOK' /\ settings'.server = Normalized(text)
        /\ settings'.context = settings.context
    BY <1>1, <1>5, <2>1 DEF Connect, StoredOK, MaybeAddress
  <2>5. OwnCreds(app)' /\ Resumed(app)' /\ InForce(app)'
    BY <1>1, <2>3, <2>4 DEF OwnCreds, Resumed, InForce
  <2>6. FromFirstUsable(app)'
    BY <1>1, <2>3 DEF Connect, FromFirstUsable, FirstUsable, Usable, Content
  <2>7. DialTarget(app)' = DialTarget(app')
    BY DEF DialTarget
  <2> QED
    BY <1>2, <2>2, <2>4, <2>5, <2>6, <2>7, Dialed DEF SettingsInv
<1> QED BY <1>4, <1>5 DEF Connect

LEMMA ContextChangesInv ==
  ASSUME SettingsInv, NEW c \in Contexts, ContextChanges(c)
  PROVE  SettingsInv'
<1>1. PICK f \in ContextFiles[c] : files' = [files EXCEPT !.contexts[c] = f]
  BY DEF ContextChanges
<1>2. /\ files \in [contexts : Contents(ContextFiles),
                    configs : Contents(ConfigFiles)]
      /\ DOMAIN ContextFiles = Contexts
  BY FilesAssumption DEF SettingsInv, StoredOK
<1>3. files.contexts \in Contents(ContextFiles)
  BY <1>2
<1>4. [files.contexts EXCEPT ![c] = f] \in Contents(ContextFiles)
  BY <1>2, <1>3 DEF Contents
<1>5. /\ files'.configs = files.configs
      /\ files'.contexts = [files.contexts EXCEPT ![c] = f]
      /\ files' \in [contexts : Contents(ContextFiles),
                     configs : Contents(ConfigFiles)]
  BY <1>1, <1>2, <1>4
<1>6. StoredOK'
  BY <1>5 DEF SettingsInv, StoredOK, ContextChanges
<1>7. app.running =>
        OwnCreds(app)' /\ Resumed(app)' /\ InForce(app)' /\ FromFirstUsable(app)'
  BY <1>5 DEF SettingsInv, ContextChanges, OwnCreds, Resumed, InForce,
              FromFirstUsable, FirstUsable, Usable, Content
<1>8. DialTarget(app)' = DialTarget(app)
  BY DEF DialTarget, ContextChanges
<1> QED BY <1>6, <1>7, <1>8 DEF SettingsInv, ContextChanges

LEMMA ConfigChangesInv ==
  ASSUME SettingsInv, NEW k \in ConfigsOnDisk, ConfigChanges(k)
  PROVE  SettingsInv'
<1>1. PICK f \in ConfigFiles[k] : files' = [files EXCEPT !.configs[k] = f]
  BY DEF ConfigChanges
<1>2. /\ files \in [contexts : Contents(ContextFiles),
                    configs : Contents(ConfigFiles)]
      /\ DOMAIN ConfigFiles = ConfigsOnDisk
  BY FilesAssumption DEF SettingsInv, StoredOK
<1>3. files.configs \in Contents(ConfigFiles)
  BY <1>2
<1>4. [files.configs EXCEPT ![k] = f] \in Contents(ConfigFiles)
  BY <1>2, <1>3 DEF Contents
<1>5. files' \in [contexts : Contents(ContextFiles),
                  configs : Contents(ConfigFiles)]
  BY <1>1, <1>2, <1>4
<1>6. StoredOK'
  BY <1>5 DEF SettingsInv, StoredOK, ConfigChanges
<1> QED BY <1>6 DEF SettingsInv, ConfigChanges

(* Where address, creds and roster in force come from, however often the   *)
(* app starts and whatever is written in between.                          *)
THEOREM SettingsInvariant == SettingsSpec => []SettingsInv
<1>1. SettingsInit => SettingsInv
  BY SettingsInvInit
<1>2. SettingsInv /\ [SettingsNext]_settingsVars => SettingsInv'
  <2> SUFFICES ASSUME SettingsInv, [SettingsNext]_settingsVars
               PROVE  SettingsInv'
    OBVIOUS
  <2>1. CASE Start
    BY <2>1, StartInv
  <2>2. CASE Stop
    BY <2>2, StopInv
  <2>3. CASE PickContext
    BY <2>3, PickInv
  <2>4. ASSUME NEW text \in FieldTexts, Connect(text) PROVE SettingsInv'
    BY <2>4, ConnectInv
  <2>5. ASSUME NEW c \in Contexts, ContextChanges(c) PROVE SettingsInv'
    BY <2>5, ContextChangesInv
  <2>6. ASSUME NEW k \in ConfigsOnDisk, ConfigChanges(k) PROVE SettingsInv'
    BY <2>6, ConfigChangesInv
  <2>7. CASE EnvironmentChanges
    BY <2>7 DEF EnvironmentChanges, SettingsInv, StoredOK
  <2>8. CASE UNCHANGED settingsVars
    <3>1. StoredOK'
      BY <2>8 DEF SettingsInv, StoredOK, settingsVars
    <3>2. app.running =>
            /\ OwnCreds(app)' /\ Resumed(app)' /\ InForce(app)'
            /\ FromFirstUsable(app)'
      BY <2>8 DEF SettingsInv, settingsVars, OwnCreds, Resumed, InForce,
                  FromFirstUsable, FirstUsable, Usable, Content
    <3>3. DialTarget(app)' = DialTarget(app)
      BY <2>8 DEF DialTarget, settingsVars
    <3> QED BY <2>8, <3>1, <3>2, <3>3 DEF SettingsInv, settingsVars
  <2> QED BY <2>1, <2>2, <2>3, <2>4, <2>5, <2>6, <2>7, <2>8 DEF SettingsNext
<1> QED BY <1>1, <1>2, PTL DEF SettingsSpec
------------------------------------------------------------------------------
(* Types, through any number of starts, for any files and choices.         *)
THEOREM SettingsTypes == SettingsSpec => []SettingsTypeOK
<1>1. SettingsInv => SettingsTypeOK
  <2> SUFFICES ASSUME SettingsInv PROVE SettingsTypeOK
    OBVIOUS
  <2>1. /\ files.contexts \in Contents(ContextFiles)
        /\ files.configs \in Contents(ConfigFiles)
    BY DEF SettingsInv, StoredOK
  <2>2. Contents(ContextFiles)
          \subseteq [Contexts -> ContextContents \cup {NoFile}]
    BY FilesAssumption DEF Contents
  <2>3. Contents(ConfigFiles)
          \subseteq [ConfigsOnDisk -> ConfigContents \cup {NoFile}]
    BY FilesAssumption DEF Contents
  <2> QED BY <2>1, <2>2, <2>3 DEF SettingsInv, StoredOK, SettingsTypeOK
<1> QED BY <1>1, SettingsInvariant, PTL

(* The creds of a context are in force only while it is selected.          *)
THEOREM ForeignCreds == SettingsSpec => []NoForeignCreds
<1>1. SettingsInv => NoForeignCreds
  BY DEF SettingsInv, OwnCreds, NoForeignCreds
<1> QED BY <1>1, SettingsInvariant, PTL

(* A saved choice outlives every stop: the context if it can be found, and *)
(* without one the address, which is then what is dialed.                  *)
THEOREM SavedChoices == SettingsSpec => []SavedIsShown
<1>1. SettingsInv => SavedIsShown
  BY DEF SettingsInv, Resumed, InForce, SavedIsShown
<1> QED BY <1>1, SettingsInvariant, PTL

(* The roster, and without a choice the address, are those of the first    *)
(* config that is usable.                                                  *)
THEOREM UsableConfig == SettingsSpec => []FirstUsableConfig
<1>1. SettingsInv => FirstUsableConfig
  BY DEF SettingsInv, FromFirstUsable, FirstUsableConfig
<1> QED BY <1>1, SettingsInvariant, PTL
------------------------------------------------------------------------------
(* The loop of folderPath() from a parent, after n turns: a chain of       *)
(* folders above it, cut only by the guard.                                *)
Climbers == [parts : Seq(Uuids), parent : Parents]
Climbed(start, n) ==
  {c \in Climbers :
     /\ \A k \in DOMAIN c.parts :
          /\ IsFolder(c.parts[k])
          /\ library[c.parts[k]].parent
               = IF k = 1 THEN c.parent ELSE c.parts[k - 1]
     /\ IF c.parts = <<>> THEN c.parent = start
        ELSE c.parts[Len(c.parts)] = start
     /\ IsFolder(c.parent) => Len(c.parts) = n}

LEMMA Records ==
  ASSUME library \in Libraries, NEW u \in Uuids
  PROVE  /\ library[u].parent \in Parents /\ library[u].modified \in Nat
         /\ library[u].pages \in Seq(Pages)
BY LibraryAssumption

LEMMA ClimbKeeps ==
  ASSUME library \in Libraries, NEW start, NEW n \in Nat, NEW c \in Climbers
  PROVE  /\ Climb(c) \in Climbers
         /\ c \in Climbed(start, n) => Climb(c) \in Climbed(start, n + 1)
<1> DEFINE d == Climb(c)
<1>1. c.parts \in Seq(Uuids) /\ c.parent \in Parents
  BY DEF Climbers
<1>2. CASE ~ IsFolder(c.parent)
  BY <1>2 DEF Climb, Climbed
<1>3. CASE IsFolder(c.parent)
  <2> DEFINE old == c.parts
             new == <<c.parent>> \o c.parts
  <2>1. c.parent \in Uuids
    BY <1>3 DEF IsFolder
  <2>2. /\ d = [parts |-> new, parent |-> library[c.parent].parent]
        /\ library[c.parent].parent \in Parents
    BY <1>3, <2>1, Records DEF Climb
  <2>3. /\ new \in Seq(Uuids) /\ Len(new) = Len(old) + 1 /\ Len(old) \in Nat
        /\ DOMAIN new = 1 .. Len(old) + 1 /\ DOMAIN old = 1 .. Len(old)
        /\ new[1] = c.parent
        /\ \A k \in 1 .. Len(old) : new[k + 1] = old[k]
    <3> HIDE DEF old
    <3>1. old \in Seq(Uuids)
      BY <1>1 DEF old
    <3> QED BY <2>1, <3>1 DEF old
  <2> HIDE DEF new, d
  <2>4. d.parts = new /\ d.parent = library[c.parent].parent /\ d \in Climbers
    BY <2>2, <2>3 DEF Climbers
  <2>5. ASSUME c \in Climbed(start, n)
        PROVE  d \in Climbed(start, n + 1)
    <3>1. /\ \A k \in DOMAIN old :
               /\ IsFolder(old[k])
               /\ library[old[k]].parent = IF k = 1 THEN c.parent ELSE old[k - 1]
          /\ IF old = <<>> THEN c.parent = start ELSE old[Len(old)] = start
          /\ Len(old) = n
      BY <1>3, <2>5 DEF Climbed
    <3> HIDE DEF old
    <3>2. ASSUME NEW k \in DOMAIN new
          PROVE  /\ IsFolder(new[k])
                 /\ library[new[k]].parent
                      = IF k = 1 THEN d.parent ELSE new[k - 1]
      <4>1. CASE k = 1
        BY <1>3, <2>3, <2>4, <4>1
      <4>2. CASE k # 1
        <5>1. k - 1 \in 1 .. Len(old) /\ (k - 1) + 1 = k
          BY <2>3, <4>2
        <5>2. new[k] = old[k - 1]
          BY <2>3, <5>1
        <5>3. CASE k - 1 = 1
          BY <2>3, <3>1, <4>2, <5>1, <5>2, <5>3
        <5>4. CASE k - 1 # 1
          <6>1. k - 2 \in 1 .. Len(old) /\ (k - 2) + 1 = k - 1 /\ (k - 1) - 1 = k - 2
            BY <5>1, <5>4
          <6>2. new[k - 1] = old[k - 2]
            BY <2>3, <6>1
          <6>3. /\ IsFolder(old[k - 1])
                /\ library[old[k - 1]].parent = old[k - 2]
            BY <2>3, <3>1, <5>1, <5>4, <6>1
          <6> QED BY <4>2, <5>2, <6>2, <6>3
        <5> QED BY <5>3, <5>4
      <4> QED BY <4>1, <4>2
    <3>3. new # <<>> /\ new[Len(new)] = start
      <4>1. CASE old = <<>>
        BY <2>3, <3>1, <4>1
      <4>2. CASE old # <<>>
        <5>1. Len(old) \in 1 .. Len(old)
          BY <1>1, <4>2 DEF old
        <5> QED BY <2>3, <3>1, <4>2, <5>1
      <4> QED BY <4>1, <4>2
    <3>4. Len(new) = n + 1
      BY <2>3, <3>1
    <3> QED BY <2>4, <3>2, <3>3, <3>4 DEF Climbed
  <2> QED BY <2>4, <2>5 DEF d
<1> QED BY <1>2, <1>3

(* folderPath() of any record's parent, in any library.                    *)
LEMMA PathClimbs ==
  ASSUME library \in Libraries, NEW start \in Parents
  PROVE  \E c \in Climbed(start, Guard) : FolderPath(start) = c.parts
<1> DEFINE first == [parts |-> <<>>, parent |-> start]
           g == [n \in 1 .. Guard |-> [c \in Climbers |-> Climb(c)]]
           Def(f) == [n \in 0 .. Guard |->
                        IF n = 0 THEN first ELSE Climb(f[n - 1])]
           after == CHOOSE f : f = Def(f)
           I == [n \in 0 .. Guard |-> Climbed(start, n)]
<1>1. Guard \in Nat
  BY StoreAssumption
<1>2. first \in Climbers /\ first \in Climbed(start, 0)
  <2>1. <<>> \in Seq(Uuids)
    OBVIOUS
  <2>2. first \in Climbers /\ first.parts = <<>> /\ first.parent = start
    BY <2>1 DEF Climbers
  <2> HIDE DEF first
  <2> QED BY <2>2 DEF Climbed
<1>3. g \in [1 .. Guard -> [Climbers -> Climbers]]
  BY ClimbKeeps
<1>4. PICK f \in [0 .. Guard -> Climbers] : IsIteration(f, first, g, Guard)
  <2> HIDE DEF g, first
  <2> QED BY <1>1, <1>2, <1>3, Iterates
<1>5. f = Def(f)
  <2>1. f[0] = first
    BY <1>4 DEF IsIteration
  <2>2. ASSUME NEW n \in 1 .. Guard PROVE f[n] = Climb(f[n - 1])
    <3>1. n - 1 \in 0 .. Guard /\ f[n - 1] \in Climbers
      BY <1>1
    <3> QED BY <1>4, <3>1 DEF IsIteration
  <2> HIDE DEF first
  <2>3. \A n \in 0 .. Guard : n = 0 \/ n \in 1 .. Guard
    BY <1>1
  <2> QED BY <2>1, <2>2, <2>3
<1>6. after = Def(after)
  <2> HIDE DEF Def
  <2> QED BY <1>5
<1>7. FolderPath(start) = after[Guard].parts
  BY DEF FolderPath
<1> HIDE DEF after, g, first
<1>8. after[0] = first /\ \A n \in 1 .. Guard : after[n] = Climb(after[n - 1])
  <2>1. 0 \in 0 .. Guard /\ \A n \in 1 .. Guard : n \in 0 .. Guard /\ n # 0
    BY <1>1
  <2> QED BY <1>6, <2>1
<1>9. \A n \in 0 .. Guard : I[n] = Climbed(start, n)
  OBVIOUS
<1>10. after[0] \in I[0]
  BY <1>1, <1>2, <1>8, <1>9
<1>11. ASSUME NEW n \in 1 .. Guard, after[n - 1] \in I[n - 1]
       PROVE  after[n] \in I[n]
  <2>1. n - 1 \in Nat /\ n - 1 \in 0 .. Guard /\ n \in 0 .. Guard /\ (n - 1) + 1 = n
    BY <1>1
  <2>2. after[n - 1] \in Climbed(start, n - 1) /\ after[n - 1] \in Climbers
    BY <1>9, <1>11, <2>1 DEF Climbed
  <2>3. Climb(after[n - 1]) \in Climbed(start, (n - 1) + 1)
    BY <2>1, <2>2, ClimbKeeps
  <2> QED BY <1>8, <1>9, <2>1, <2>3
<1> HIDE DEF I
<1>12. \A n \in 0 .. Guard : after[n] \in I[n]
  BY <1>1, <1>10, <1>11, TurnByTurn
<1>13. after[Guard] \in Climbed(start, Guard)
  BY <1>1, <1>9, <1>12
<1> QED BY <1>7, <1>13

LEMMA PathsAreReal ==
  ASSUME library \in Libraries, NEW u \in Uuids
  PROVE  LET path == FolderPath(library[u].parent)
         IN path \in Seq(Uuids) /\ PathIsReal(u, path)
<1>1. PICK c \in Climbed(library[u].parent, Guard) :
        FolderPath(library[u].parent) = c.parts
  BY Records, PathClimbs
<1> DEFINE path == c.parts
           ends == [k \in 1 .. Len(path) + 1 |->
                      IF k > Len(path) THEN u ELSE path[k]]
<1>2. path \in Seq(Uuids) /\ Len(path) \in Nat /\ DOMAIN path = 1 .. Len(path)
  <2>1. path \in Seq(Uuids)
    BY DEF Climbed, Climbers
  <2> HIDE DEF path
  <2> QED BY <2>1
<1>3. /\ \A k \in DOMAIN path :
           /\ IsFolder(path[k])
           /\ library[path[k]].parent = IF k = 1 THEN c.parent ELSE path[k - 1]
      /\ IF path = <<>> THEN c.parent = library[u].parent
         ELSE path[Len(path)] = library[u].parent
      /\ IsFolder(c.parent) => Len(path) = Guard
  BY DEF Climbed
<1> HIDE DEF path
<1>4. ends[Len(path) + 1] = u /\ \A k \in 1 .. Len(path) : ends[k] = path[k]
  BY <1>2
<1> HIDE DEF ends
<1>5. ASSUME NEW k \in DOMAIN path
      PROVE  library[ends[k + 1]].parent = path[k]
  <2>1. CASE k = Len(path)
    BY <1>2, <1>3, <1>4, <2>1
  <2>2. CASE k # Len(path)
    <3>1. k + 1 \in 1 .. Len(path) /\ k + 1 # 1 /\ (k + 1) - 1 = k
      BY <1>2, <2>2
    <3> QED BY <1>2, <1>3, <1>4, <3>1
  <2> QED BY <2>1, <2>2
<1>6. library[ends[1]].parent = c.parent
  <2>1. CASE path = <<>>
    BY <1>3, <1>4, <2>1
  <2>2. CASE path # <<>>
    BY <1>2, <1>3, <1>4, <2>2
  <2> QED BY <2>1, <2>2
<1>7. PathIsReal(u, path)
  BY <1>3, <1>5, <1>6 DEF PathIsReal, ends
<1> QED BY <1>1, <1>2, <1>7 DEF path
------------------------------------------------------------------------------
(* The pages found after n of them: none exactly if none has a file.       *)
Found(pages, n) ==
  {s \in Seq(Pages) : s # <<>> <=> \E k \in 1 .. n : HasFile(pages[k])}

LEMMA PagesFound ==
  ASSUME library \in Libraries, NEW u \in Uuids
  PROVE  PagesOf(u) \in Found(library[u].pages, Len(library[u].pages))
<1> DEFINE pages == library[u].pages
           N == Len(pages)
           Add(s, n) == IF HasFile(pages[n]) THEN Append(s, pages[n]) ELSE s
           g == [n \in 1 .. N |-> [s \in Seq(Pages) |-> Add(s, n)]]
           Def(f) == [n \in 0 .. N |->
                        IF n = 0 THEN <<>>
                        ELSE IF HasFile(pages[n])
                             THEN Append(f[n - 1], pages[n]) ELSE f[n - 1]]
           found == CHOOSE f : f = Def(f)
           I == [n \in 0 .. N |-> Found(pages, n)]
<1>1. N \in Nat /\ \A n \in 1 .. N : pages[n] \in Pages
  <2>1. pages \in Seq(Pages)
    BY Records
  <2> HIDE DEF pages
  <2> QED BY <2>1
<1>2. PagesOf(u) = found[N]
  BY DEF PagesOf
<1> HIDE DEF pages, N
<1>3. \A n \in 1 .. N, s \in Seq(Pages) : Add(s, n) \in Seq(Pages)
  BY <1>1
<1>4. g \in [1 .. N -> [Seq(Pages) -> Seq(Pages)]]
  <2> HIDE DEF Add
  <2> QED BY <1>3
<1>5. PICK f \in [0 .. N -> Seq(Pages)] : IsIteration(f, <<>>, g, N)
  <2>1. <<>> \in Seq(Pages)
    OBVIOUS
  <2> HIDE DEF g
  <2> QED BY <1>1, <1>4, <2>1, Iterates
<1>6. f = Def(f)
  <2>1. f[0] = <<>>
    BY <1>5 DEF IsIteration
  <2>2. ASSUME NEW n \in 1 .. N PROVE f[n] = Add(f[n - 1], n)
    <3>1. n - 1 \in 0 .. N /\ f[n - 1] \in Seq(Pages)
      BY <1>1
    <3> HIDE DEF Add
    <3> QED BY <1>5, <3>1 DEF IsIteration
  <2>3. \A n \in 0 .. N : n = 0 \/ n \in 1 .. N
    BY <1>1
  <2> QED BY <2>1, <2>2, <2>3
<1>7. found = Def(found)
  <2> HIDE DEF Def
  <2> QED BY <1>6
<1> HIDE DEF found, g
<1>8. found[0] = <<>> /\ \A n \in 1 .. N : found[n] = Add(found[n - 1], n)
  <2>1. 0 \in 0 .. N /\ \A n \in 1 .. N : n \in 0 .. N /\ n # 0
    BY <1>1
  <2> QED BY <1>7, <2>1
<1>9. \A n \in 0 .. N : I[n] = Found(pages, n)
  OBVIOUS
<1> HIDE DEF I
<1>10. found[0] \in I[0]
  <2>1. <<>> \in Found(pages, 0)
    <3>1. <<>> \in Seq(Pages)
      OBVIOUS
    <3>2. ~ \E k \in 1 .. 0 : HasFile(pages[k])
      OBVIOUS
    <3> QED BY <3>1, <3>2 DEF Found
  <2>2. 0 \in 0 .. N
    BY <1>1
  <2>3. I[0] = Found(pages, 0)
    BY <1>9, <2>2
  <2> QED BY <1>8, <2>1, <2>3
<1>11. ASSUME NEW n \in 1 .. N, found[n - 1] \in I[n - 1]
       PROVE  found[n] \in I[n]
  <2>1. n - 1 \in 0 .. N /\ n \in 0 .. N
        /\ \A k : k \in 1 .. n <=> k \in 1 .. n - 1 \/ k = n
    BY <1>1
  <2>2. /\ found[n - 1] \in Seq(Pages)
        /\ found[n - 1] # <<>> <=> \E k \in 1 .. n - 1 : HasFile(pages[k])
    BY <1>9, <1>11, <2>1 DEF Found
  <2>3. CASE HasFile(pages[n])
    <3>1. found[n] = Append(found[n - 1], pages[n]) /\ pages[n] \in Pages
      BY <1>1, <1>8, <2>3
    <3>2. found[n] \in Seq(Pages) /\ found[n] # <<>>
      BY <2>2, <3>1, AppendProperties
    <3> QED BY <1>9, <2>1, <2>3, <3>2 DEF Found
  <2>4. CASE ~ HasFile(pages[n])
    <3>1. found[n] = found[n - 1]
      BY <1>8, <2>4
    <3> QED BY <1>9, <2>1, <2>2, <2>4, <3>1 DEF Found
  <2> QED BY <2>3, <2>4
<1>12. \A n \in 0 .. N : found[n] \in I[n]
  BY <1>1, <1>10, <1>11, TurnByTurn
<1>13. N \in 0 .. N
  BY <1>1
<1> QED BY <1>2, <1>9, <1>12, <1>13 DEF N, pages

(* What is listed is what can be attached and is not itself in the trash.  *)
LEMMA ListedIsAttachable ==
  ASSUME library \in Libraries, NEW u \in Uuids
  PROVE  Listed(u) <=> Attachable(u) /\ library[u].parent # Trash
<1> DEFINE pages == library[u].pages
<1>1. pages \in Seq(Pages)
  BY Records
<1>2. PagesOf(u) # <<>> <=> \E k \in 1 .. Len(pages) : HasFile(pages[k])
  BY PagesFound DEF Found
<1>3. PagesOf(u) # <<>> <=> \E k \in DOMAIN pages : HasFile(pages[k])
  <2> HIDE DEF pages
  <2> QED BY <1>1, <1>2
<1> QED BY <1>3 DEF Listed, Attachable, HasFile, IsDeleted

(* An enumeration of a finite set, which is what is sorted.                *)
LEMMA Enumeration ==
  ASSUME NEW S, IsFiniteSet(S), NEW order \in SetToSeqs(S)
  PROVE  /\ DOMAIN order = 1 .. Cardinality(S) /\ Cardinality(S) \in Nat
         /\ order \in [1 .. Cardinality(S) -> S]
         /\ {order[k] : k \in DOMAIN order} = S
         /\ \A i, j \in DOMAIN order : i # j => order[i] # order[j]
<1> DEFINE N == Cardinality(S)
<1>1. N \in Nat
  BY FS_CardinalityType
<1>2. /\ order \in [1 .. N -> S]
      /\ \A i, j \in 1 .. N : i # j => order[i] # order[j]
  BY DEF SetToSeqs
<1>3. IsFiniteSet(1 .. N) /\ Cardinality(1 .. N) = N
  BY <1>1, FS_Interval
<1>6. ASSUME NEW x \in S, \A k \in 1 .. N : order[k] # x PROVE FALSE
  <2>1. order \in [1 .. N -> S \ {x}]
    BY <1>2, <1>6
  <2>2. IsFiniteSet(S \ {x}) /\ Cardinality(S \ {x}) = N - 1
    BY <1>6, FS_RemoveElement
  <2>3. Cardinality(1 .. N) > Cardinality(S \ {x})
    BY <1>1, <1>3, <2>2
  <2>4. \E i, j \in 1 .. N : i # j /\ order[i] = order[j]
    <3> DEFINE T == S \ {x}
               K == 1 .. N
    <3>1. IsFiniteSet(T)
      BY <2>2
    <3>2. IsFiniteSet(K)
      BY <1>3
    <3>3. Cardinality(T) < Cardinality(K)
      BY <1>1, <1>3, <2>2
    <3>4. order \in [K -> T]
      BY <2>1
    <3> HIDE DEF K, T
    <3>5. \E i, j \in K : i # j /\ order[i] = order[j]
      BY ONLY <3>1, <3>2, <3>3, <3>4, FS_PigeonHole
    <3> QED BY <3>5 DEF K
  <2> QED BY <1>2, <2>4
<1> QED BY <1>1, <1>2, <1>6

Notes == [uuid : Uuids, folder : Seq(Uuids), pages : Seq(Pages), modified : Nat]

(* scan(): the rows it leaves, of whatever library it finds.               *)
LEMMA ScanLists ==
  ASSUME library \in Libraries, NEW rows \in Scans
  PROVE  /\ rows \in Seq(Notes)
         /\ {rows[n].uuid : n \in DOMAIN rows} = {u \in Uuids : Listed(u)}
         /\ \A n, m \in DOMAIN rows :
              n < m => /\ rows[n].uuid # rows[m].uuid
                       /\ rows[n].modified >= rows[m].modified
         /\ \A n \in DOMAIN rows : PathIsReal(rows[n].uuid, rows[n].folder)
<1> DEFINE S == {u \in Uuids : Listed(u)}
<1>1. IsFiniteSet(S) /\ S = {u \in Uuids : Listed(u)}
  <2>1. S \in SUBSET Uuids
    OBVIOUS
  <2> QED BY <2>1, StoreAssumption, FS_Subset
<1>2. PICK order \in SetToSeqs(S) :
        /\ \A i, j \in DOMAIN order :
             i < j => library[order[i]].modified >= library[order[j]].modified
        /\ rows = [k \in DOMAIN order |-> NoteOf(order[k])]
  BY DEF Scans
<1> DEFINE N == Cardinality(S)
<1> HIDE DEF S
<1>3. /\ DOMAIN order = 1 .. N /\ N \in Nat
      /\ order \in [1 .. N -> S]
      /\ {order[k] : k \in DOMAIN order} = S
      /\ \A i, j \in DOMAIN order : i # j => order[i] # order[j]
  BY <1>1, Enumeration
<1> HIDE DEF N
<1>4. \A k \in 1 .. N : order[k] \in Uuids
  BY <1>1, <1>3
<1>5. ASSUME NEW u \in Uuids
      PROVE  /\ NoteOf(u) \in Notes /\ NoteOf(u).uuid = u
             /\ NoteOf(u).modified = library[u].modified
             /\ PathIsReal(u, NoteOf(u).folder)
  <2>1. PagesOf(u) \in Seq(Pages)
    BY PagesFound DEF Found
  <2> QED BY <2>1, PathsAreReal, Records DEF NoteOf, Notes
<1>6. DOMAIN rows = 1 .. N /\ \A k \in 1 .. N : rows[k] = NoteOf(order[k])
  BY <1>2, <1>3
<1>7. rows \in Seq(Notes)
  <2>1. rows \in [1 .. N -> Notes]
    BY <1>2, <1>3, <1>4, <1>5
  <2> QED BY <1>3, <2>1, FunctionIsSeq
<1>8. {rows[n].uuid : n \in DOMAIN rows} = S
  <2>1. \A n \in 1 .. N : rows[n].uuid = order[n]
    BY <1>4, <1>5, <1>6
  <2> QED BY <1>3, <1>6, <2>1
<1>9. \A n, m \in DOMAIN rows :
        n < m => /\ rows[n].uuid # rows[m].uuid
                 /\ rows[n].modified >= rows[m].modified
  BY <1>2, <1>3, <1>4, <1>5, <1>6
<1>10. \A n \in DOMAIN rows : PathIsReal(rows[n].uuid, rows[n].folder)
  BY <1>4, <1>5, <1>6
<1> QED BY <1>1, <1>7, <1>8, <1>9, <1>10
------------------------------------------------------------------------------
(* Each step of the app is one of Settings, or none of its business.       *)
LEMMA StartupStep ==
  [StartupNext]_startupVars => [SettingsNext]_settingsVars
<1> SUFFICES ASSUME [StartupNext]_startupVars
             PROVE  [SettingsNext]_settingsVars
  OBVIOUS
<1>1. CASE Launch \/ Quit
  BY <1>1 DEF Launch, Quit, SettingsNext
<1>2. CASE InUse \/ Around
  BY <1>2 DEF InUse, Around, SettingsNext
<1>3. CASE UNCHANGED startupVars
  BY <1>3 DEF startupVars
<1> QED BY <1>1, <1>2, <1>3 DEF StartupNext

(* The composition implements its component.                               *)
THEOREM StartupImplementsSettings == StartupSpec => SettingsSpec
<1>1. StartupInit => SettingsInit
  BY DEF StartupInit
<1> QED BY <1>1, StartupStep, PTL DEF StartupSpec, SettingsSpec

(* What the user chose last is in force after any number of starts.        *)
THEOREM StartupKeepsChoices ==
  StartupSpec => [](SavedIsShown /\ NoForeignCreds /\ FirstUsableConfig)
BY StartupImplementsSettings, SavedChoices, ForeignCreds, UsableConfig, PTL

(* The list is the library's as long as neither changes.                   *)
LEMMA ListKept ==
  ASSUME ListIsLibrary, UNCHANGED library, UNCHANGED notes
  PROVE  ListIsLibrary'
<1>1. (/\ \A n \in DOMAIN notes :
            Attachable(notes[n].uuid) /\ library[notes[n].uuid].parent # Trash
       /\ \A u \in Uuids : Attachable(u) /\ ~ InTrash(u) =>
            \E n \in DOMAIN notes : notes[n].uuid = u)'
  BY DEF ListIsLibrary, Attachable, InTrash, IsFolder
<1>2. (\A n, m \in DOMAIN notes :
         n < m => /\ notes[n].uuid # notes[m].uuid
                  /\ notes[n].modified >= notes[m].modified)'
  BY DEF ListIsLibrary
<1>3. (\A n \in DOMAIN notes : PathIsReal(notes[n].uuid, notes[n].folder))'
  <2>1. \A n \in DOMAIN notes : PathIsReal(notes[n].uuid, notes[n].folder)
    BY DEF ListIsLibrary
  <2> QED BY <2>1 DEF PathIsReal, IsFolder
<1> QED BY <1>1, <1>2, <1>3 DEF ListIsLibrary

(* The list of a running app, and the library as it was found.             *)
StoreInv ==
  /\ StoreTypeOK
  /\ app.running => ListIsLibrary

LEMMA ScanInv ==
  ASSUME library \in Libraries, SetRootPath
  PROVE  StoreTypeOK' /\ ListIsLibrary'
<1>1. notes' \in Scans /\ library' = library
  BY DEF SetRootPath
<1> DEFINE rows == notes'
<1>2. /\ rows \in Seq(Notes)
      /\ {rows[n].uuid : n \in DOMAIN rows} = {u \in Uuids : Listed(u)}
      /\ \A n, m \in DOMAIN rows :
           n < m => /\ rows[n].uuid # rows[m].uuid
                    /\ rows[n].modified >= rows[m].modified
      /\ \A n \in DOMAIN rows : PathIsReal(rows[n].uuid, rows[n].folder)
  BY <1>1, ScanLists
<1>3. StoreTypeOK'
  BY <1>1, <1>2 DEF StoreTypeOK, Notes
<1>4. \A n \in DOMAIN rows :
        /\ rows[n].uuid \in Uuids
        /\ Attachable(rows[n].uuid) /\ library[rows[n].uuid].parent # Trash
  <2> SUFFICES ASSUME NEW n \in DOMAIN rows
               PROVE  /\ rows[n].uuid \in Uuids
                      /\ Attachable(rows[n].uuid)
                      /\ library[rows[n].uuid].parent # Trash
    OBVIOUS
  <2>1. rows[n].uuid \in {u \in Uuids : Listed(u)}
    BY <1>2
  <2> QED BY <2>1, ListedIsAttachable
<1>5. \A u \in Uuids : Attachable(u) /\ ~ InTrash(u) =>
        \E n \in DOMAIN rows : rows[n].uuid = u
  <2> SUFFICES ASSUME NEW u \in Uuids, Attachable(u), ~ InTrash(u)
               PROVE  \E n \in DOMAIN rows : rows[n].uuid = u
    OBVIOUS
  <2>1. Listed(u)
    BY ListedIsAttachable DEF InTrash
  <2> QED BY <1>2, <2>1
<1>6. (\A n \in DOMAIN notes :
         Attachable(notes[n].uuid) /\ library[notes[n].uuid].parent # Trash)'
  BY <1>1, <1>4 DEF Attachable
<1>7. (\A u \in Uuids : Attachable(u) /\ ~ InTrash(u) =>
         \E n \in DOMAIN notes : notes[n].uuid = u)'
  BY <1>1, <1>5 DEF Attachable, InTrash, IsFolder
<1>8. (\A n \in DOMAIN notes : PathIsReal(notes[n].uuid, notes[n].folder))'
  BY <1>1, <1>2 DEF PathIsReal, IsFolder
<1>9. ListIsLibrary'
  BY <1>2, <1>6, <1>7, <1>8 DEF ListIsLibrary
<1> QED BY <1>3, <1>9

LEMMA StoreInvariant == StartupSpec => []StoreInv
<1>1. StartupInit => StoreInv
  BY DEF StartupInit, StoreInit, SettingsInit, NotRunning, StoreInv, StoreTypeOK
<1>2. StoreInv /\ [StartupNext]_startupVars => StoreInv'
  <2> SUFFICES ASSUME StoreInv, [StartupNext]_startupVars PROVE StoreInv'
    OBVIOUS
  <2>1. CASE Launch
    BY <2>1, ScanInv DEF Launch, StoreInv, StoreTypeOK
  <2>2. CASE Quit
    <3>1. library' = library /\ notes' = <<>> /\ ~ app'.running
      BY <2>2 DEF Quit, Stop, Forget, NotRunning
    <3>2. StoreTypeOK'
      BY <3>1 DEF StoreInv, StoreTypeOK
    <3> QED BY <3>1, <3>2 DEF StoreInv
  <2>3. CASE (InUse \/ Around) /\ UNCHANGED storeVars
    <3>1. app'.running => app.running
      BY <2>3 DEF InUse, Around, PickContext, Connect, ContextChanges,
                  ConfigChanges, EnvironmentChanges
    <3>2. UNCHANGED <<library, notes>>
      BY <2>3 DEF storeVars
    <3>3. StoreTypeOK'
      BY <3>2 DEF StoreInv, StoreTypeOK
    <3>4. ListIsLibrary => ListIsLibrary'
      BY <3>2, ListKept
    <3> QED BY <3>1, <3>3, <3>4 DEF StoreInv
  <2>4. CASE UNCHANGED startupVars
    <3>0. UNCHANGED app
      BY <2>4 DEF startupVars, settingsVars
    <3>1. UNCHANGED <<library, notes>>
      BY <2>4 DEF startupVars, storeVars
    <3>2. StoreTypeOK'
      BY <3>1 DEF StoreInv, StoreTypeOK
    <3>3. ListIsLibrary => ListIsLibrary'
      BY <3>1, ListKept
    <3> QED BY <3>0, <3>1, <3>2, <3>3 DEF StoreInv
  <2> QED BY <2>1, <2>2, <2>3, <2>4 DEF StartupNext
<1> QED BY <1>1, <1>2, PTL DEF StartupSpec

(* Types of the app and of its note store.                                 *)
THEOREM StartupTypes == StartupSpec => []StartupTypeOK
<1>1. StoreInv /\ SettingsTypeOK => StartupTypeOK
  BY DEF StoreInv, StartupTypeOK
<1> QED BY <1>1, StoreInvariant, StartupImplementsSettings, SettingsTypes, PTL

(* For as long as the app runs, its list holds the notebooks that can be   *)
(* attached, none that was put in the trash itself and each that is not in *)
(* the trash in any way, once, the latest first and under its real folder, *)
(* however the folders of the library are linked.                          *)
THEOREM NotesListed == StartupSpec => []NotesAreLibrary
<1>1. StoreInv => NotesAreLibrary
  BY DEF StoreInv, NotesAreLibrary
<1> QED BY <1>1, StoreInvariant, PTL
=============================================================================
