---------------------------- MODULE StartupProofs ---------------------------
(***************************************************************************)
(* Proofs about Startup for every set of environments and files.  What the *)
(* validation accepts is never looked into: only load_config's exceptions  *)
(* and the order of the steps matter.                                      *)
(***************************************************************************)
EXTENDS Startup, TLAPS

Settings == {e.settings : e \in Environments}
Configs  == {f.config : f \in Files}

\* get_provider_config returns for a document it accepts and for nothing else.
LEMMA LoadedIffAccepted ==
    ASSUME NEW f \in Files
    PROVE  LoadResult(f) = "loaded" <=> f.state = "document" /\ Accepted(f.config)
<1>1. f.state \in {"missing", "unreadable", "duplicate", "not_yaml", "misshapen", "invalid",
                   "document"}
  BY FileAssumption
<1>2. load_config(f) = "loaded" <=> f.state = "document" /\ WellStructured(f.config)
  BY <1>1 DEF load_config
<1>. QED
  BY <1>2 DEF LoadResult, Accepted

\* What a process holds at each step: the settings it read once it needs
\* them, the configuration once it is to serve, and nothing before.
Held ==
    /\ pc \in {"telemetry", "settings"} => cache.settings = Empty
    /\ pc \in {"telemetry", "settings", "config"} => cache.config = Empty
    /\ pc \in {"config", "routes", "serving"} =>
          cache.settings = read.settings /\ cache.settings \in Settings /\ Usable(cache.settings)
    /\ pc \in {"routes", "serving"} =>
          /\ read.file \in Files /\ LoadResult(read.file) = "loaded"
          /\ cache.config = read.file.config

\* An end that nobody forced has its reason in what was read.
Deserved ==
    exit.how \notin {"none", "killed"} =>
        \/ exit.at = "settings" /\ ~ Usable(read.settings)
        \/ exit.at = "config" /\ read.file \in Files /\ LoadResult(read.file) # "loaded"

\* A running process has not ended, and one that ended for a reason is down.
Ended == Running => exit.how = "none"

StartupInv == StartupTypeOK /\ Held /\ Deserved /\ Ended

LEMMA InitStartupInv == Init => StartupInv
<1>. SUFFICES ASSUME Init PROVE StartupInv
  OBVIOUS
<1>1. StartupTypeOK
  BY DEF Init, StartupTypeOK, EmptyCaches, NothingRead
<1>2. Held /\ Deserved /\ Ended
  BY DEF Init, Held, Deserved, Ended, Running
<1>. QED
  BY <1>1, <1>2 DEF StartupInv

LEMMA EditKeepsStartupInv == StartupInv /\ Edit => StartupInv'
<1>. SUFFICES ASSUME StartupInv, Edit PROVE StartupInv'
  OBVIOUS
<1>1. UNCHANGED <<pc, cache, reporting, exit, read>> /\ env' \in Environments /\ file' \in Files
  BY DEF Edit, process, StartupInv, StartupTypeOK
<1>2. StartupTypeOK'
  BY <1>1 DEF StartupInv, StartupTypeOK
<1>3. Held' /\ Deserved' /\ Ended'
  BY <1>1 DEF StartupInv, Held, Deserved, Ended, Running
<1>. QED
  BY <1>2, <1>3 DEF StartupInv

LEMMA LaunchKeepsStartupInv == StartupInv /\ Launch => StartupInv'
<1>. SUFFICES ASSUME StartupInv, Launch PROVE StartupInv'
  OBVIOUS
<1>1. StartupTypeOK'
  BY DEF Launch, StartupInv, StartupTypeOK, EmptyCaches, NothingRead
<1>2. Held' /\ Deserved' /\ Ended'
  BY DEF Launch, Held, Deserved, Ended, EmptyCaches, Running
<1>. QED
  BY <1>1, <1>2 DEF StartupInv

LEMMA TelemetryKeepsStartupInv == StartupInv /\ install_observability => StartupInv'
<1>. SUFFICES ASSUME StartupInv, install_observability PROVE StartupInv'
  OBVIOUS
<1>1. StartupTypeOK'
  BY DEF install_observability, StartupInv, StartupTypeOK
<1>2. Held' /\ Deserved' /\ Ended'
  BY DEF install_observability, StartupInv, Held, Deserved, Ended, Running
<1>. QED
  BY <1>1, <1>2 DEF StartupInv

LEMMA SettingsKeepStartupInv == StartupInv /\ LoadSettings => StartupInv'
<1>. SUFFICES ASSUME StartupInv, LoadSettings PROVE StartupInv'
  OBVIOUS
<1>1. cache.settings = Empty /\ cache.config = Empty /\ pc = "settings"
  BY DEF LoadSettings, StartupInv, Held
<1>2. get_settings = env.settings /\ get_settings \in Settings
  BY <1>1 DEF get_settings, StartupInv, StartupTypeOK, Settings
<1>3. PICK s \in Settings : s = get_settings
  BY <1>2
<1>4. read' = [read EXCEPT !.settings = s] /\ UNCHANGED <<env, file, reporting>>
  BY <1>3 DEF LoadSettings
<1>5. read' \in [settings : Settings \cup {Empty}, file : Files \cup {Empty}]
  BY <1>4 DEF StartupInv, StartupTypeOK, Settings
<1>6. CASE Usable(s)
  <2>1. cache' = [cache EXCEPT !.settings = s] /\ pc' = "config" /\ exit' = exit
    BY <1>3, <1>6 DEF LoadSettings
  <2>2. cache'.settings = s /\ cache'.config = Empty /\ read'.settings = s
    BY <1>1, <1>4, <2>1 DEF StartupInv, StartupTypeOK
  <2>3. StartupTypeOK'
    BY <1>4, <1>5, <2>1 DEF StartupInv, StartupTypeOK, Settings
  <2>4. Held' /\ Ended'
    BY <1>1, <1>6, <2>1, <2>2 DEF StartupInv, Held, Ended, Running
  <2>5. Deserved'
    BY <1>1, <2>1 DEF StartupInv, Deserved, Ended, Running
  <2>. QED
    BY <2>3, <2>4, <2>5 DEF StartupInv
<1>7. CASE ~ Usable(s)
  <2>1. pc' = "down" /\ exit' = [how |-> "StartupError", at |-> "settings"] /\ cache' = cache
    BY <1>1, <1>3, <1>7 DEF LoadSettings, End
  <2>2. read'.settings = s
    BY <1>4 DEF StartupInv, StartupTypeOK
  <2>3. StartupTypeOK'
    BY <1>4, <1>5, <2>1 DEF StartupInv, StartupTypeOK, Settings
  <2>4. Held' /\ Deserved' /\ Ended'
    BY <1>7, <2>1, <2>2 DEF Held, Deserved, Ended, Running
  <2>. QED
    BY <2>3, <2>4 DEF StartupInv
<1>. QED
  BY <1>6, <1>7

LEMMA ConfigKeepsStartupInv == StartupInv /\ LoadConfig => StartupInv'
<1>. SUFFICES ASSUME StartupInv, LoadConfig PROVE StartupInv'
  OBVIOUS
<1>1. cache.config = Empty /\ pc = "config" /\ file \in Files
  BY DEF LoadConfig, StartupInv, Held, StartupTypeOK
<1>2. PICK f \in Files : f = file
  BY <1>1
<1>3. read' = [read EXCEPT !.file = f] /\ UNCHANGED <<env, file, reporting>>
  BY <1>2 DEF LoadConfig
<1>4. /\ read' \in [settings : Settings \cup {Empty}, file : Files \cup {Empty}]
      /\ read'.file = f /\ read'.settings = read.settings
  BY <1>3 DEF StartupInv, StartupTypeOK, Settings
<1>5. CASE LoadResult(f) = "loaded"
  <2>1. cache' = [cache EXCEPT !.config = f.config] /\ pc' = "routes" /\ exit' = exit
    BY <1>1, <1>2, <1>5 DEF LoadConfig, get_provider_config
  <2>2. cache'.config = f.config /\ cache'.settings = cache.settings
    BY <2>1 DEF StartupInv, StartupTypeOK
  <2>3. StartupTypeOK'
    BY <1>3, <1>4, <2>1 DEF StartupInv, StartupTypeOK, Settings
  <2>4. Held' /\ Ended'
    BY <1>1, <1>4, <1>5, <2>1, <2>2 DEF StartupInv, Held, Ended, Running
  <2>5. Deserved'
    BY <1>1, <2>1 DEF StartupInv, Deserved, Ended, Running
  <2>. QED
    BY <2>3, <2>4, <2>5 DEF StartupInv
<1>6. CASE LoadResult(f) # "loaded"
  <2>1. /\ pc' = "down" /\ cache' = cache /\ exit'.at = "config"
        /\ exit' \in [how : {"StartupError", "other"}, at : {"config"}]
    BY <1>1, <1>2, <1>6 DEF LoadConfig, End
  <2>2. StartupTypeOK'
    BY <1>3, <1>4, <2>1 DEF StartupInv, StartupTypeOK, Settings
  <2>3. Held' /\ Deserved' /\ Ended'
    BY <1>4, <1>6, <2>1 DEF Held, Deserved, Ended, Running
  <2>. QED
    BY <2>2, <2>3 DEF StartupInv
<1>. QED
  BY <1>5, <1>6

LEMMA ServeKeepsStartupInv == StartupInv /\ Serve => StartupInv'
<1>. SUFFICES ASSUME StartupInv, Serve PROVE StartupInv'
  OBVIOUS
<1>1. StartupTypeOK'
  BY DEF Serve, StartupInv, StartupTypeOK
<1>2. Held' /\ Deserved' /\ Ended'
  BY DEF Serve, StartupInv, Held, Deserved, Ended, Running
<1>. QED
  BY <1>1, <1>2 DEF StartupInv

LEMMA KillKeepsStartupInv == StartupInv /\ Kill => StartupInv'
<1>. SUFFICES ASSUME StartupInv, Kill PROVE StartupInv'
  OBVIOUS
<1>1. StartupTypeOK'
  BY DEF Kill, End, StartupInv, StartupTypeOK
<1>2. Held' /\ Deserved' /\ Ended'
  BY DEF Kill, End, StartupInv, Held, Deserved, Ended, Running
<1>. QED
  BY <1>1, <1>2 DEF StartupInv

\* The inductive invariant: any step of the process or its operator keeps it.
LEMMA StepKeepsStartupInv == StartupInv /\ [Next]_startup => StartupInv'
<1>. SUFFICES ASSUME StartupInv, [Next]_startup PROVE StartupInv'
  OBVIOUS
<1>1. CASE UNCHANGED startup
  <2>1. UNCHANGED <<env, file, pc, cache, reporting, exit, read>>
    BY <1>1 DEF startup, process
  <2>2. StartupTypeOK'
    BY <2>1 DEF StartupInv, StartupTypeOK
  <2>3. Held' /\ Deserved' /\ Ended'
    BY <2>1 DEF StartupInv, Held, Deserved, Ended, Running
  <2>. QED
    BY <2>2, <2>3 DEF StartupInv
<1>. QED
  BY <1>1, EditKeepsStartupInv, LaunchKeepsStartupInv, TelemetryKeepsStartupInv,
     SettingsKeepStartupInv, ConfigKeepsStartupInv, ServeKeepsStartupInv, KillKeepsStartupInv
     DEF Next, Start

LEMMA StartupInvMeans ==
    StartupInv => StartupTypeOK /\ ServesWhatItAccepted /\ ExitsAreDeserved
<1>. SUFFICES ASSUME StartupInv PROVE ServesWhatItAccepted /\ ExitsAreDeserved
  BY DEF StartupInv
<1>1. ServesWhatItAccepted
  BY LoadedIffAccepted DEF StartupInv, Held, ServesWhatItAccepted
<1>2. ExitsAreDeserved
  BY LoadedIffAccepted DEF StartupInv, Deserved, ExitsAreDeserved
<1>. QED
  BY <1>1, <1>2

LEMMA StartupAlways == Spec => []StartupInv
<1>. QED
  BY InitStartupInv, StepKeepsStartupInv, PTL DEF Spec

\* Type correctness of the life of a process.
THEOREM StartupTypes == Spec => []StartupTypeOK
  BY StartupAlways, StartupInvMeans, PTL

\* A process that serves, serves the usable settings and the accepted
\* configuration it read, whatever is edited around it at any time.
THEOREM ServesOnlyWhatItAccepted == Spec => []ServesWhatItAccepted
  BY StartupAlways, StartupInvMeans, PTL

\* A process nobody killed ends only because its settings are unusable or its
\* configuration is not an accepted document: never for a reporting fault.
THEOREM StartupFailsOnlyForCause == Spec => []ExitsAreDeserved
  BY StartupAlways, StartupInvMeans, PTL

=============================================================================
