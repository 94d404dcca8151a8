--------------------------- MODULE AddonBootstrap ----------------------------
(***************************************************************************)
(* The start script of the Home Assistant add-on: addon/labtether/run.sh   *)
(* and lib/runtime-state.sh, from the migration of older state to the      *)
(* start of the Hub, and the Hub's use of the setup token.                 *)
(*                                                                         *)
(* Every write to /data is a step of its own (the script replaces a file   *)
(* by mv, so a write is whole or absent), and the container may be killed  *)
(* between any two steps.  What the script keeps in shell variables is     *)
(* lost then, what is under /data stays.                                   *)
(***************************************************************************)
EXTENDS FiniteSets

CONSTANTS
    None,           \* a blank option, an absent value or file
    Tokens,         \* the setup tokens an operator may configure
    OptionSets      \* the options the add-on may be configured with

Credentials == {"owner", "encryption"}
Databases == {"local", "external"}
Markers == {"option", "issued"}

(* A credential value: from a legacy installation, from the options (a     *)
(* well-formed one, and one that is no base64 key of 32 bytes), or made    *)
(* by the script.  Two made ones tell a fresh value from an older one.     *)
Generated == {"generated", "regenerated"}
Values == {"legacy", "option", "malformed"} \cup Generated
Fresh == "fresh"        \* a setup token made by the script
SetupTokens == Tokens \cup {Fresh}
ASSUME TokensAssumption == Fresh \notin Tokens  \* it is random

(* The options: auto_generate_credentials, whether an admin password is    *)
(* set, labtether_setup_token, labtether_owner_token and encryption_key,   *)
(* database_url.                                                           *)
Options ==
    [auto : BOOLEAN, password : BOOLEAN, token : Tokens \cup {None},
     credential : [Credentials -> {None, "option", "malformed"}],
     database : {None, "external"}]
ASSUME OptionsAssumption == OptionSets \subseteq Options

(* runtime.json: the credential values, the database's url and mode.       *)
Runtimes ==
    [credential : [Credentials -> Values \cup {None}],
     url : Databases \cup {None}, mode : Databases \cup {None}]
ASSUME NoneAssumption ==
    None \notin SetupTokens \cup Values \cup Databases \cup Runtimes

Steps == {"migrateState", "removeEnv", "optionMarker", "issuedMarker", "owner",
          "encryption", "token", "markOption", "markIssued", "database",
          "databaseMode", "ownerCheck", "markReissued", "keyCheck", "summary",
          "exec"}

VARIABLES
    pc,             \* the script's next step, "stopped" or "running" (the Hub)
    options,        \* options.json
    runtime,        \* runtime.json, None when absent
    legacyEnv,      \* is the older runtime.env there?
    tokenFile,      \* setup-token
    marker,         \* the option and the issued marker: the token they hash
    legacyMarker,   \* the same markers where older releases kept them
    generatedFile,  \* generated-credentials.txt: the values it names
    owners,         \* the databases that hold an owner account
    generatedKeys,  \* shell: GENERATED_KEYS
    consumed,       \* shell: SETUP_TOKEN_CONSUMED
    answered,       \* shell: did the database answer the owner check?
    used,           \* history: was an owner created with a setup token?
    spent,          \* history: the configured one, while it is configured
    hubKey,         \* history: the encryption key the Hub last ran with
    calm            \* from now on nobody kills or reconfigures the add-on

files == <<runtime, legacyEnv, tokenFile, marker, legacyMarker, generatedFile>>
shell == <<generatedKeys, consumed, answered>>
history == <<used, spent, hubKey>>
vars == <<pc, options, files, owners, shell, history, calm>>

NoCredentials == [c \in Credentials |-> None]
LegacyRuntime == [credential |-> [c \in Credentials |-> "legacy"],
                  url |-> "local", mode |-> "local"]

(* A new installation, or one of an older release whose setup token is     *)
(* pending, or was used.                                                   *)
Init ==
    /\ pc = "stopped"
    /\ options \in OptionSets
    /\ runtime = None
    /\ marker = [m \in Markers |-> None]
    /\ generatedFile = NoCredentials
    /\ generatedKeys = {}
    /\ consumed = FALSE
    /\ answered = TRUE
    /\ calm = FALSE
    /\ \/ /\ legacyEnv = FALSE
          /\ tokenFile = None
          /\ legacyMarker = [m \in Markers |-> None]
          /\ owners = {}
          /\ used = FALSE
          /\ spent = {}
          /\ hubKey = None
       \/ \E t \in SetupTokens :
          /\ used \in BOOLEAN
          /\ legacyEnv = TRUE
          /\ tokenFile = IF used THEN None ELSE t
          /\ legacyMarker = [m \in Markers |->
               IF m = "option" /\ t = Fresh THEN None ELSE t]
          /\ owners = IF used THEN {"local"} ELSE {}
          /\ spent = IF used THEN {t} \cap {options.token} ELSE {}
          /\ hubKey = "legacy"

Goto(from, to) == pc = from /\ pc' = to
OnlyShell == UNCHANGED <<options, files, owners, history, calm>>

-----------------------------------------------------------------------------
(* State migration.                                                        *)

Start ==
    /\ Goto("stopped", "migrateState")
    /\ generatedKeys' = {}
    /\ consumed' = FALSE
    /\ answered' = TRUE
    /\ OnlyShell

(* migrate_legacy_state: runtime.json decides whether there is anything    *)
(* to do; the legacy file goes only after it is written.                   *)
MigrateState ==
    /\ \/ /\ runtime # None
          /\ Goto("migrateState", "optionMarker")
          /\ UNCHANGED runtime
       \/ /\ runtime = None
          /\ ~legacyEnv
          /\ Goto("migrateState", "optionMarker")
          /\ runtime' = [credential |-> NoCredentials, url |-> None, mode |-> None]
       \/ /\ runtime = None
          /\ legacyEnv
          /\ Goto("migrateState", "removeEnv")
          /\ runtime' = LegacyRuntime
    /\ UNCHANGED <<options, legacyEnv, tokenFile, marker, legacyMarker,
                   generatedFile, owners, shell, history, calm>>

RemoveEnv ==
    /\ Goto("removeEnv", "optionMarker")
    /\ legacyEnv' = FALSE
    /\ UNCHANGED <<options, runtime, tokenFile, marker, legacyMarker,
                   generatedFile, owners, shell, history, calm>>

(* Mutant: a move that was interrupted after the copy is never finished.   *)
MoveMarkerOnce(m, from, to) ==
    /\ pc = from
    /\ \/ /\ legacyMarker[m] = None
          /\ pc' = to
          /\ UNCHANGED <<marker, legacyMarker>>
       \/ /\ legacyMarker[m] # None
          /\ marker[m] = None
          /\ marker' = [marker EXCEPT ![m] = legacyMarker[m]]
          /\ legacyMarker' \in {legacyMarker, [legacyMarker EXCEPT ![m] = None]}
          /\ UNCHANGED pc
    /\ UNCHANGED <<options, runtime, legacyEnv, tokenFile, generatedFile,
                   owners, shell, history, calm>>

(* migrate_legacy_setup_markers: each marker is copied unless it is there, *)
(* then the old one is removed.                                            *)
MoveMarker(m, from, to) ==
    /\ pc = from
    /\ \/ /\ legacyMarker[m] = None
          /\ pc' = to
          /\ UNCHANGED <<marker, legacyMarker>>
       \/ /\ legacyMarker[m] # None
          /\ marker[m] = None
          /\ marker' = [marker EXCEPT ![m] = legacyMarker[m]]
          /\ UNCHANGED <<pc, legacyMarker>>
       \/ /\ legacyMarker[m] # None
          /\ marker[m] # None
          /\ legacyMarker' = [legacyMarker EXCEPT ![m] = None]
          /\ pc' = to
          /\ UNCHANGED marker
    /\ UNCHANGED <<options, runtime, legacyEnv, tokenFile, generatedFile,
                   owners, shell, history, calm>>

MoveMarkers ==
    \/ MoveMarker("option", "optionMarker", "issuedMarker")
    \/ MoveMarker("issued", "issuedMarker", "owner")

-----------------------------------------------------------------------------
(* Credentials.                                                            *)

(* A value random enough differs from every earlier one; the model only    *)
(* needs it to differ from the value in use.                               *)
Random == CHOOSE v \in Generated : v # hubKey

Option(c) == options.credential[c]
(* Mutant: auto_generate_credentials makes a new value on every start.     *)
AlwaysGenerated(c) ==
    IF Option(c) # None THEN Option(c)
    ELSE IF options.auto THEN Random
    ELSE runtime.credential[c]

Chosen(c) ==
    IF Option(c) # None THEN Option(c)
    ELSE IF runtime.credential[c] # None THEN runtime.credential[c]
    ELSE Random
MustGenerate(c) == Option(c) = None /\ runtime.credential[c] = None

(* require_or_generate: the option, else the stored value, else a new one; *)
(* whichever it is becomes the stored value.                               *)
RequireOrGenerate(c, to) ==
    /\ Goto(c, to)
    /\ MustGenerate(c) => options.auto
    /\ runtime' = [runtime EXCEPT !.credential[c] = Chosen(c)]
    /\ generatedKeys' = generatedKeys \cup (IF MustGenerate(c) THEN {c} ELSE {})
    /\ UNCHANGED <<options, legacyEnv, tokenFile, marker, legacyMarker,
                   generatedFile, owners, consumed, answered, history, calm>>

GetCredentials ==
    \/ RequireOrGenerate("owner", "encryption")
    \/ RequireOrGenerate("encryption", "token")

-----------------------------------------------------------------------------
(* The setup token.                                                        *)

WriteToken(t) ==
    /\ tokenFile' = t
    /\ UNCHANGED <<options, runtime, legacyEnv, marker, legacyMarker,
                   generatedFile, owners, shell, history, calm>>

WriteMarker(m, t) ==
    /\ marker' = [marker EXCEPT ![m] = t]
    /\ UNCHANGED <<options, runtime, legacyEnv, tokenFile, legacyMarker,
                   generatedFile, owners, shell, history, calm>>

NewlyConfigured == options.token # None /\ options.token # marker["option"]
Pending == tokenFile # None
IssuedBefore == marker["issued"] # None \/ marker["option"] # None

PasswordReplacesToken ==
    /\ Goto("token", "database")
    /\ options.password
    /\ WriteToken(None)

(* Mutant: a configured token is marked as issued only.                    *)
StageUnmarked ==
    /\ Goto("token", "markIssued")
    /\ ~options.password
    /\ NewlyConfigured
    /\ WriteToken(options.token)

StageConfiguredToken ==
    /\ Goto("token", "markOption")
    /\ ~options.password
    /\ NewlyConfigured
    /\ WriteToken(options.token)

MarkOption == Goto("markOption", "markIssued") /\ WriteMarker("option", tokenFile)

(* Mutant: a pending token is taken as marked already.                     *)
ReuseUnmarked ==
    /\ Goto("token", "database")
    /\ ~options.password
    /\ ~NewlyConfigured
    /\ Pending
    /\ OnlyShell
    /\ UNCHANGED shell

ReusePendingToken ==
    /\ pc = "token"
    /\ ~options.password
    /\ ~NewlyConfigured
    /\ Pending
    /\ pc' = IF marker["issued"] = None THEN "markIssued" ELSE "database"
    /\ OnlyShell
    /\ UNCHANGED shell

FindTokenConsumed ==
    /\ Goto("token", "database")
    /\ ~options.password
    /\ ~NewlyConfigured
    /\ ~Pending
    /\ IssuedBefore
    /\ consumed' = TRUE
    /\ marker' = IF marker["issued"] = None
                 THEN [marker EXCEPT !["issued"] = marker["option"]]
                 ELSE marker
    /\ UNCHANGED <<options, runtime, legacyEnv, tokenFile, legacyMarker,
                   generatedFile, owners, generatedKeys, answered, history, calm>>

IssueFirstToken ==
    /\ Goto("token", "markIssued")
    /\ ~options.password
    /\ ~NewlyConfigured
    /\ ~Pending
    /\ ~IssuedBefore
    /\ options.auto
    /\ WriteToken(Fresh)

MarkIssued == Goto("markIssued", "database") /\ WriteMarker("issued", tokenFile)

-----------------------------------------------------------------------------
(* The database.                                                           *)

PersistUrl(url) ==
    /\ runtime' = [runtime EXCEPT !.url = url]
    /\ UNCHANGED <<options, legacyEnv, tokenFile, marker, legacyMarker,
                   generatedFile, owners, shell, history, calm>>

(* Without the option, what was stored decides; anything but a stored      *)
(* external URL means the bundled Postgres.                                *)
UsesStoredExternal ==
    options.database = None /\ runtime.url = "external" /\ runtime.mode # "local"

ChooseDatabase ==
    \/ /\ Goto("database", "databaseMode")
       /\ options.database = "external"
       /\ PersistUrl("external")
    \/ /\ Goto("database", "ownerCheck")
       /\ UsesStoredExternal
       /\ PersistUrl("external")
    \/ /\ Goto("database", "databaseMode")
       /\ options.database = None
       /\ ~UsesStoredExternal
       /\ PersistUrl("local")

PersistMode ==
    /\ Goto("databaseMode", "ownerCheck")
    /\ runtime' = [runtime EXCEPT !.mode = runtime.url]
    /\ UNCHANGED <<options, legacyEnv, tokenFile, marker, legacyMarker,
                   generatedFile, owners, shell, history, calm>>

(* Mutant: the owner is looked for in the bundled database.                *)
OwnerOfBundledDatabase ==
    /\ Goto("ownerCheck", "keyCheck")
    /\ \/ ~consumed /\ UNCHANGED answered
       \/ consumed /\ "local" \in owners /\ UNCHANGED answered
       \/ consumed /\ answered' = FALSE
    /\ UNCHANGED <<generatedKeys, consumed>>
    /\ OnlyShell

(* A used token with no owner happens when the database is a new one.  Any *)
(* answer but that, a connection error too, leaves the token as it is.     *)
OwnerCheckPasses ==
    /\ Goto("ownerCheck", "keyCheck")
    /\ \/ ~consumed /\ UNCHANGED answered
       \/ consumed /\ runtime.url \in owners /\ UNCHANGED answered
       \/ consumed /\ answered' = FALSE
    /\ UNCHANGED <<generatedKeys, consumed>>
    /\ OnlyShell

ReissueToken ==
    /\ Goto("ownerCheck", "markReissued")
    /\ consumed
    /\ runtime.url \notin owners
    /\ options.auto
    /\ WriteToken(Fresh)

MarkReissued == Goto("markReissued", "keyCheck") /\ WriteMarker("issued", tokenFile)

-----------------------------------------------------------------------------
(* The start of the Hub.                                                   *)

CheckKey ==
    /\ Goto("keyCheck", "summary")
    /\ runtime.credential["encryption"] # "malformed"
    /\ OnlyShell
    /\ UNCHANGED shell

(* write_generated_summary: the file names what this start generated.      *)
WriteSummary ==
    /\ Goto("summary", "exec")
    /\ generatedFile' =
         IF generatedKeys = {} THEN generatedFile
         ELSE [c \in Credentials |->
                 IF c \in generatedKeys THEN runtime.credential[c] ELSE None]
    /\ UNCHANGED <<options, runtime, legacyEnv, tokenFile, marker,
                   legacyMarker, owners, shell, history, calm>>

(* Mutant: the Hub is given the option instead of the value in use.        *)
ExecWithOption ==
    /\ Goto("exec", "running")
    /\ hubKey' = Option("encryption")
    /\ UNCHANGED <<options, files, owners, shell, used, spent, calm>>

Exec ==
    /\ Goto("exec", "running")
    /\ hubKey' = runtime.credential["encryption"]
    /\ UNCHANGED <<options, files, owners, shell, used, spent, calm>>

(* The conditions under which the script gives up by itself.               *)
Refused ==
    \/ pc \in Credentials /\ MustGenerate(pc) /\ ~options.auto
    \/ /\ pc = "token"
       /\ ~(options.password \/ NewlyConfigured \/ Pending \/ IssuedBefore \/ options.auto)
    \/ pc = "ownerCheck" /\ consumed /\ runtime.url \notin owners /\ ~options.auto
    \/ pc = "keyCheck" /\ runtime.credential["encryption"] = "malformed"

Fail ==
    /\ Refused
    /\ pc' = "stopped"
    /\ OnlyShell
    /\ UNCHANGED shell

-----------------------------------------------------------------------------
(* The Hub, the user and the supervisor.                                   *)

(* The Hub creates the owner from the password, or from the setup token;   *)
(* it removes the token file after that.                                   *)
HubCreatesOwner ==
    /\ pc = "running"
    /\ runtime.url \notin owners
    /\ options.password \/ Pending
    /\ owners' = owners \cup {runtime.url}
    /\ used' = (used \/ ~options.password)
    /\ spent' = IF options.password THEN spent
                ELSE spent \cup ({tokenFile} \cap {options.token})
    /\ UNCHANGED <<pc, options, files, shell, hubKey, calm>>

HubRemovesToken ==
    /\ pc = "running"
    /\ runtime.url \in owners
    /\ Pending
    /\ UNCHANGED pc
    /\ WriteToken(None)

(* A crash of the Hub or the script, a stop, a power cut.                  *)
Kill ==
    /\ ~calm
    /\ pc # "stopped"
    /\ pc' = "stopped"
    /\ OnlyShell
    /\ UNCHANGED shell

ChangeOptions(new) ==
    /\ ~calm
    /\ pc = "stopped"
    /\ options' = new
    /\ spent' = spent \cap {new.token}
    /\ UNCHANGED <<pc, files, owners, shell, used, hubKey, calm>>

(* The user points database_url at a new empty database.                   *)
NewExternalDatabase ==
    /\ ~calm
    /\ pc = "stopped"
    /\ options.database = "external"
    /\ owners' = owners \ {"external"}
    /\ UNCHANGED <<pc, options, files, shell, history, calm>>

CalmDown ==
    /\ ~calm
    /\ calm' = TRUE
    /\ UNCHANGED <<pc, options, files, owners, shell, history>>

-----------------------------------------------------------------------------

ScriptStep ==
    \/ Start \/ MigrateState \/ RemoveEnv \/ MoveMarkers \/ GetCredentials
    \/ PasswordReplacesToken \/ StageConfiguredToken \/ MarkOption
    \/ ReusePendingToken \/ FindTokenConsumed \/ IssueFirstToken \/ MarkIssued
    \/ ChooseDatabase \/ PersistMode \/ OwnerCheckPasses \/ ReissueToken
    \/ MarkReissued \/ CheckKey \/ WriteSummary \/ Exec \/ Fail

Next ==
    \/ ScriptStep
    \/ HubCreatesOwner
    \/ HubRemovesToken
    \/ Kill
    \/ \E new \in OptionSets : ChangeOptions(new)
    \/ NewExternalDatabase
    \/ CalmDown

Spec == Init /\ [][Next]_vars

(* The script runs on, and the supervisor starts it again when it stops.   *)
FairSpec == Spec /\ WF_vars(ScriptStep)

-----------------------------------------------------------------------------
(* Properties.                                                             *)

(* The types; and a running Hub has an encryption key (run.sh:546-552).    *)
TypeOK ==
    /\ pc \in Steps \cup {"stopped", "running"}
    /\ options \in OptionSets
    /\ runtime \in {None} \cup Runtimes
    /\ legacyEnv \in BOOLEAN
    /\ tokenFile \in SetupTokens \cup {None}
    /\ marker \in [Markers -> SetupTokens \cup {None}]
    /\ legacyMarker \in [Markers -> SetupTokens \cup {None}]
    /\ generatedFile \in [Credentials -> Generated \cup {None}]
    /\ owners \subseteq Databases
    /\ generatedKeys \subseteq Credentials
    /\ {consumed, answered, used, calm} \subseteq BOOLEAN
    /\ spent \subseteq Tokens
    /\ hubKey \in Values \cup {None}
    /\ pc = "running" => hubKey # None

(* A running Hub has an owner account, a password to make one from, or a   *)
(* pending setup token, whatever was killed, reconfigured or moved before; *)
(* only a database that did not answer leaves it open (run.sh:483-495).    *)
WayIn ==
    (pc = "running" /\ answered) =>
        \/ options.password
        \/ Pending
        \/ runtime.url \in owners

(* A configured setup token that made an owner is not staged again while   *)
(* it stays configured: neither a restart nor a new database brings it     *)
(* back (run.sh:422-428).                                                  *)
ConsumedStaysConsumed ==
    [][tokenFile' \in spent => tokenFile' = tokenFile]_vars

(* Once a setup token made an owner, the script makes a new one only for a *)
(* database that has no owner (run.sh:445-453 and 483-495).                *)
NoNewSecret ==
    [][(used /\ tokenFile' = Fresh /\ tokenFile # Fresh)
        => runtime.url \notin owners]_vars

(* The Hub finds what it encrypted: the key it runs with changes only to a *)
(* key the user configured, now or before, whatever was killed in between  *)
(* and over the migration of older state (run.sh:204-228,                  *)
(* runtime-state.sh:40-84).                                                *)
KeyStable ==
    [][(hubKey' # hubKey /\ hubKey # None) => hubKey' = "option"]_vars

(* Once nobody interferes and credentials may be generated, the Hub comes  *)
(* up, from whatever files the interrupted starts before left.             *)
HubComesUp == (calm /\ options.auto) ~> pc = "running"

(* DOCS.md: encryption_key is optional when credentials are generated, so  *)
(* a start without the option is not refused over the key (run.sh:546).    *)
KeyIsOptional ==
    (pc = "keyCheck" /\ options.auto /\ Option("encryption") = None) =>
        runtime.credential["encryption"] # "malformed"

=============================================================================
