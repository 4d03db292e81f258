------------------------------ MODULE Startup -------------------------------
(***************************************************************************)
(* The life of one service process, from create_app of api/app.py to its   *)
(* end: error reporting first, then the settings, then the view            *)
(* configuration, and only then the routes.  An operator edits the         *)
(* environment file and the configuration file at any time; the process    *)
(* reads each once and keeps what it read in an lru_cache.                 *)
(***************************************************************************)
EXTENDS ViewConfig

CONSTANTS
    Environments,   \* [settings, dsn]: what the environment may say
    Files,          \* [state, config]: what stands at config_path
    Empty           \* an lru_cache without an entry

ASSUME EnvironmentAssumption ==
    \A e \in Environments :
        /\ e.settings \in [complete : BOOLEAN, token : STRING, url : {"usable", "unparsable"}]
        /\ e.dsn \in {"unset", "valid", "malformed"}

ASSUME FileAssumption ==
    \A f \in Files : f.state \in
        {"missing", "unreadable", "duplicate", "not_yaml", "misshapen", "invalid", "document"}

ASSUME EmptyAssumption ==
    Empty \notin {e.settings : e \in Environments} \cup {f.config : f \in Files} \cup Files

VARIABLES
    env,        \* the environment and the .env file
    file,       \* the configuration file
    pc,         \* "down", a step of create_app, or "serving"
    cache,      \* the lru_caches of this process: [settings, config]
    reporting,  \* whether sentry_sdk has an active client
    exit,       \* how the last process ended: [how, at]
    read        \* history: the [settings, file] the process last read

process == <<pc, cache, reporting, exit, read>>

NothingRead == [settings |-> Empty, file |-> Empty]
EmptyCaches == [settings |-> Empty, config |-> Empty]

Running == pc # "down"

\* Settings() raises no ValidationError.
Usable(settings) == settings.complete /\ settings.token # ""

-----------------------------------------------------------------------------
(* The cached functions *)

\* Mutant: without lru_cache every call reads the environment.
get_settings_Uncached == env.settings

\* get_settings(): what the cache holds, or what the environment says now.
get_settings == IF cache.settings = Empty THEN env.settings ELSE cache.settings

\* load_config(path), by the exception it ends with.  `.get` and `.values` on
\* a list, and an unreadable file, raise outside both except clauses.
load_config(f) ==
    CASE f.state \in {"missing", "duplicate", "not_yaml", "invalid"} -> "ConfigError"
      [] f.state \in {"unreadable", "misshapen"} -> "other"
      [] f.state = "document" -> IF WellStructured(f.config) THEN "loaded" ELSE "ConfigError"

\* Mutant: the rules are not validated.
LoadResult_Unvalidated(f) == load_config(f)

\* get_provider_config() on a miss: load_config, then validate_config.
LoadResult(f) ==
    IF load_config(f) = "loaded" /\ ~ \A v \in DOMAIN f.config.views : ViewAccepted(f.config, v)
    THEN "ConfigError" ELSE load_config(f)

\* Mutant: without lru_cache every call reads the file.
get_provider_config_Uncached == file.config

get_provider_config == IF cache.config = Empty THEN file.config ELSE cache.config

-----------------------------------------------------------------------------
Init ==
    /\ env \in Environments
    /\ file \in Files
    /\ pc = "down"
    /\ cache = EmptyCaches
    /\ reporting = FALSE
    /\ exit = [how |-> "none", at |-> "down"]
    /\ read = NothingRead

Edit ==
    /\ \/ env' \in Environments /\ UNCHANGED file
       \/ file' \in Files /\ UNCHANGED env
    /\ UNCHANGED process

\* uvicorn calls the factory in a new process.
Launch ==
    /\ pc = "down"
    /\ pc' = "telemetry"
    /\ cache' = EmptyCaches
    /\ reporting' = FALSE
    /\ exit' = [how |-> "none", at |-> "down"]
    /\ read' = NothingRead
    /\ UNCHANGED <<env, file>>

\* The process ends: how, and at which step.
End(how) ==
    /\ pc' = "down"
    /\ exit' = [how |-> how, at |-> pc]

\* Mutant: BadDsn is not caught.
install_observability_Unguarded ==
    /\ pc = "telemetry"
    /\ \/ /\ env.dsn # "malformed"
          /\ pc' = "settings"
          /\ reporting' = (env.dsn = "valid")
          /\ UNCHANGED exit
       \/ /\ env.dsn = "malformed"
          /\ End("BadDsn")
          /\ UNCHANGED reporting
    /\ UNCHANGED <<env, file, cache, read>>

\* A malformed DSN costs error reporting and nothing else.
install_observability ==
    /\ pc = "telemetry"
    /\ pc' = "settings"
    /\ reporting' = (env.dsn = "valid")
    /\ UNCHANGED <<env, file, cache, exit, read>>

\* _load_configuration, first half.
LoadSettings ==
    /\ pc = "settings"
    /\ read' = [read EXCEPT !.settings = get_settings]
    /\ \/ /\ Usable(get_settings)
          /\ cache' = [cache EXCEPT !.settings = get_settings]
          /\ pc' = "config"
          /\ UNCHANGED exit
       \/ /\ ~ Usable(get_settings)
          /\ End("StartupError")
          /\ UNCHANGED cache
    /\ UNCHANGED <<env, file, reporting>>

\* _load_configuration, second half.
LoadConfig ==
    /\ pc = "config"
    /\ read' = [read EXCEPT !.file = file]
    /\ \/ /\ LoadResult(file) = "loaded"
          /\ cache' = [cache EXCEPT !.config = get_provider_config]
          /\ pc' = "routes"
          /\ UNCHANGED exit
       \/ /\ LoadResult(file) = "ConfigError"
          /\ End("StartupError")
          /\ UNCHANGED cache
       \/ /\ LoadResult(file) = "other"
          /\ End("other")
          /\ UNCHANGED cache
    /\ UNCHANGED <<env, file, reporting>>

\* The handlers and routers are in place; the server binds its port.
Serve ==
    /\ pc = "routes"
    /\ pc' = "serving"
    /\ UNCHANGED <<env, file, cache, reporting, exit, read>>

\* The process is stopped or killed, at whatever it was doing.
Kill ==
    /\ Running
    /\ End("killed")
    /\ UNCHANGED <<env, file, cache, reporting, read>>

Start == install_observability \/ LoadSettings \/ LoadConfig \/ Serve

Next == Edit \/ Launch \/ Start \/ Kill

startup == <<env, file, process>>

Spec == Init /\ [][Next]_startup /\ WF_startup(Start)

-----------------------------------------------------------------------------
(* Properties *)

\* Type correctness.
StartupTypeOK ==
    /\ env \in Environments
    /\ file \in Files
    /\ pc \in {"down", "telemetry", "settings", "config", "routes", "serving"}
    /\ cache \in [settings : {e.settings : e \in Environments} \cup {Empty},
                  config : {f.config : f \in Files} \cup {Empty}]
    /\ reporting \in BOOLEAN
    /\ exit \in [how : {"none", "killed", "StartupError", "other"},
                 at : {"down", "telemetry", "settings", "config", "routes", "serving"}]
    /\ read \in [settings : {e.settings : e \in Environments} \cup {Empty},
                 file : Files \cup {Empty}]

\* What a process serves is usable settings and an accepted configuration,
\* the one it read while it started, whatever has been edited since.
ServesWhatItAccepted ==
    pc = "serving" =>
        /\ cache.settings = read.settings /\ Usable(cache.settings)
        /\ read.file.state = "document"
        /\ cache.config = read.file.config /\ Accepted(cache.config)

\* A process that was not killed ends for one of the two things it needs, and
\* never for the sake of error reporting.
ExitsAreDeserved ==
    exit.how \notin {"none", "killed"} =>
        \/ exit.at = "settings" /\ ~ Usable(read.settings)
        \/ exit.at = "config" /\ ~ (read.file.state = "document" /\ Accepted(read.file.config))

\* No crash loop: once the environment and the file are right for good, a
\* process that is started again and again comes up, or somebody kills it.
RepairedMeansServing ==
    /\ <>[](Usable(env.settings) /\ LoadResult(file) = "loaded")
    /\ []<>Running
    => []<>(pc = "serving" \/ exit.how = "killed")

=============================================================================
