-------------------------------- MODULE Logger --------------------------------
(***************************************************************************)
(* LoggerModule and LoggerService: which of the lines a program logs reach *)
(* an output, for the options the application gave.  An options record has *)
(* the options that are given, some of which may be undefined.             *)
(***************************************************************************)
EXTENDS Integers, Sequences, SequencesExt

CONSTANT Undefined
ASSUME UndefinedAssumption == Undefined \notin BOOLEAN

\* The switches are booleans, when they are given.
SwitchesTyped(options) ==
  /\ "enableHttpLogger" \in DOMAIN options => options.enableHttpLogger \in BOOLEAN \cup {Undefined}
  /\ "httpLogger" \in DOMAIN options /\ options.httpLogger # Undefined =>
       \A k \in DOMAIN options.httpLogger \cap {"enableRequestLog", "enableResponseLog"} :
         options.httpLogger[k] \in BOOLEAN \cup {Undefined}
Defined(options) == [k \in {k \in DOMAIN options : options[k] # Undefined} |-> options[k]]
\* An object spread over another: @@, which the provers cannot expand.
Over(f, g) == [k \in DOMAIN f \cup DOMAIN g |-> IF k \in DOMAIN f THEN f[k] ELSE g[k]]

EnvironmentPreset(environment) ==
  LET preset(level, file, request) ==
        [level |-> level, enableFileLogger |-> file, enableHttpLogger |-> TRUE,
         httpLogger |-> [enableRequestLog |-> request, enableResponseLog |-> TRUE]] IN
  CASE environment = "staging" -> preset("log", TRUE, TRUE)
    [] environment = "production" -> preset("warn", TRUE, FALSE)
    [] environment = "test" -> [level |-> "error", enableFileLogger |-> FALSE, enableHttpLogger |-> FALSE]
    [] OTHER -> preset("debug", FALSE, TRUE)

EnvironmentOf(options) == IF "environment" \in DOMAIN options THEN options.environment ELSE "development"
PresetOf(options) == EnvironmentPreset(EnvironmentOf(options))

\* Faulty variant: the user's httpLogger replaces the preset's.
MergeShallow(options) == Over(Defined(options), Over(PresetOf(options), [provider |-> "winston"]))
MergeWithDefaults(options) ==
  LET given == Defined(options)
      preset == PresetOf(options)
      nested == {"httpLogger"} \cap DOMAIN given \cap DOMAIN preset IN
  Over([k \in nested |-> Over(Defined(given[k]), preset[k])], Over(given, Over(preset, [provider |-> "winston"])))

\* What HttpLoggerInterceptor is told, and how it reads it.
HttpLoggerOptions(merged) ==
  IF "httpLogger" \in DOMAIN merged THEN merged.httpLogger
  ELSE [enableRequestLog |-> merged.enableHttpLogger, enableResponseLog |-> merged.enableHttpLogger]
Enabled(http, switch) == switch \in DOMAIN http /\ http[switch] # Undefined => http[switch]

-----------------------------------------------------------------------------

\* Winston passes what is at its level or above, and nothing when it does not
\* know the level.
WinstonLevels == <<"error", "warn", "info", "http", "verbose", "debug", "silly">>
Rank(level) == CHOOSE i \in DOMAIN WinstonLevels : WinstonLevels[i] = level
KnownToWinston(level) == Contains(WinstonLevels, level)
Admits(threshold, level) == KnownToWinston(threshold) /\ Rank(level) <= Rank(threshold)

CreateWinstonLogger(merged, level) ==
  LET files == IF merged.enableFileLogger THEN {"combined", "error"} ELSE {} IN
  {t \in {"console"} \cup files : Admits(IF t = "error" THEN "error" ELSE merged.level, level)}

NestLevels == <<"error", "warn", "log", "debug", "verbose">>
GetLevelsUpTo(level) == {NestLevels[i] : i \in 1..(CHOOSE i \in DOMAIN NestLevels : NestLevels[i] = level)}

\* The outputs a line reaches.  filters: whether Nest's logger has setLogLevels.
Log(merged, filters, level, trace) ==
  CASE merged.provider = "winston" -> CreateWinstonLogger(merged, IF level = "log" THEN "info" ELSE level)
    [] merged.provider = "default" /\ level = "error" /\ ~trace -> {}
    [] OTHER -> IF filters => level \in GetLevelsUpTo(merged.level) THEN {"console"} ELSE {}

\* The default logger gets the metadata in the message, and no trace: the
\* context, which is not given here, is in its place.
LogWithMetadata(merged, filters, level) == Log(merged, filters, level, FALSE)
=============================================================================
