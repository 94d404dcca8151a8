------------------------- MODULE AddonBootstrapProofs --------------------------
(***************************************************************************)
(* Proofs about AddonBootstrap, for any setup tokens and any options the   *)
(* add-on is configured with.                                              *)
(*                                                                         *)
(* The properties speak of the Hub running or of one write.  What makes    *)
(* them hold is spread over the steps before, and has to survive a kill    *)
(* between any two of them: the invariant says for each step which file    *)
(* the steps before have brought in order.                                 *)
(***************************************************************************)
EXTENDS AddonBootstrap, TLAPS

(* The steps before the runtime state, a moved marker, the credentials.    *)
Unread == {"stopped", "migrateState"}
Unmoved == Unread \cup {"removeEnv", "optionMarker"}
Unissued == Unmoved \cup {"issuedMarker"}

(* The steps after the setup token is staged, after the owner check.       *)
Checked == {"keyCheck", "summary", "exec", "running"}
Staged == Checked \cup {"database", "databaseMode", "ownerCheck"}

(* Once the script is past the migration, the old markers are gone.        *)
MarkersMoved ==
    /\ pc \notin Unmoved => legacyMarker["option"] = None
    /\ pc \notin Unissued => legacyMarker["issued"] = None

(* The stored key is the one the Hub ran with, or one the user configured  *)
(* since; before the migration the older file holds it.                    *)
KeyInUse ==
    /\ pc \notin Unread => runtime # None
    /\ hubKey # None =>
         IF runtime = None THEN legacyEnv /\ hubKey = "legacy"
         ELSE runtime.credential["encryption"] \in {hubKey, "option", "malformed"}
    /\ pc \notin Unissued \cup Credentials => runtime.credential["encryption"] # None
    /\ pc \in {"summary", "exec"} => runtime.credential["encryption"] # "malformed"
    /\ pc = "running" => hubKey # None

(* From its choice on, the database is one.                                *)
DatabaseChosen ==
    pc \in (Staged \ {"database"}) \cup {"markReissued"} => runtime.url # None

(* What this start generated is what is stored.                            *)
GeneratedNow ==
    /\ pc \in (Unissued \ {"stopped"}) \cup {"owner"} => generatedKeys = {}
    /\ pc = "encryption" => "encryption" \notin generatedKeys
    /\ pc \notin {"stopped", "running"} =>
         \A c \in generatedKeys : runtime.credential[c] \in Generated

(* The configured token, once used, is the one the option marker names.    *)
SpentIsMarked ==
    \A t \in spent :
        /\ t = options.token
        /\ marker["option"] = t \/ (marker["option"] = None /\ legacyMarker["option"] = t)

(* Before the Hub can use a token, both its markers are written.           *)
StagedIsMarked ==
    /\ pc = "markOption" => Pending /\ tokenFile = options.token
    /\ pc = "markIssued" => Pending
    /\ pc = "markReissued" => tokenFile = Fresh
    /\ pc \in Staged \cup {"markIssued"} =>
         (Pending /\ tokenFile = options.token => marker["option"] = tokenFile)
    /\ pc \in Staged => (Pending => marker["issued"] # None)

(* An owner made from a token leaves the issued marker.                    *)
UsedIsMarked == used => marker["issued"] # None \/ legacyMarker["issued"] # None

(* How the first owner will be made, up to the owner check and after it.   *)
OwnerOrToken ==
    /\ pc \in Staged \ Checked => options.password \/ Pending \/ consumed
    /\ pc \in Checked /\ answered => options.password \/ Pending \/ runtime.url \in owners

IInv ==
    /\ TypeOK /\ MarkersMoved /\ KeyInUse /\ GeneratedNow
    /\ SpentIsMarked /\ StagedIsMarked /\ UsedIsMarked /\ OwnerOrToken
    /\ DatabaseChosen

-----------------------------------------------------------------------------

(* The configured token is a token, and not one the script made.           *)
LEMMA OptionTypes ==
  ASSUME NEW o \in OptionSets
  PROVE  /\ o.auto \in BOOLEAN /\ o.password \in BOOLEAN
         /\ o.token \in Tokens \cup {None}
         /\ \A c \in Credentials : o.credential[c] \in {None, "option", "malformed"}
         /\ o.token # Fresh
<1>1. o \in Options
  BY OptionsAssumption
<1>2. o.credential \in [Credentials -> {None, "option", "malformed"}]
  BY <1>1 DEF Options
<1>3. o.token \in Tokens \cup {None}
  BY <1>1 DEF Options
<1>4. o.auto \in BOOLEAN /\ o.password \in BOOLEAN
  BY <1>1 DEF Options
<1> QED
  BY <1>2, <1>3, <1>4, TokensAssumption, NoneAssumption DEF SetupTokens

(* A value made by the script is one, and not the value in use.            *)
LEMMA RandomIsNew == Random \in Generated /\ Random # hubKey
<1>1. \E v \in Generated : v # hubKey
  BY DEF Generated
<1> QED
  BY <1>1 DEF Random

(* Storing one credential changes nothing else.                            *)
LEMMA RuntimeUpdate ==
  ASSUME NEW r \in Runtimes, NEW c \in Credentials, NEW v \in Values \cup {None}
  PROVE  /\ [r EXCEPT !.credential[c] = v] \in Runtimes
         /\ [r EXCEPT !.credential[c] = v].credential[c] = v
         /\ \A d \in Credentials \ {c} :
              [r EXCEPT !.credential[c] = v].credential[d] = r.credential[d]
         /\ [r EXCEPT !.credential[c] = v].url = r.url
<1>1. r.credential \in [Credentials -> Values \cup {None}]
  BY DEF Runtimes
<1>2. [r.credential EXCEPT ![c] = v] \in [Credentials -> Values \cup {None}]
  BY <1>1
<1>3. /\ [r EXCEPT !.credential[c] = v] =
           [credential |-> [r.credential EXCEPT ![c] = v], url |-> r.url, mode |-> r.mode]
      /\ r.url \in Databases \cup {None} /\ r.mode \in Databases \cup {None}
  BY DEF Runtimes
<1>4. /\ [r.credential EXCEPT ![c] = v][c] = v
      /\ \A d \in Credentials \ {c} : [r.credential EXCEPT ![c] = v][d] = r.credential[d]
  BY <1>1
<1> QED
  BY <1>2, <1>3, <1>4 DEF Runtimes

(* What a required credential is stored as.                                *)
LEMMA ChosenCredential ==
  ASSUME IInv, NEW c \in Credentials, runtime # None
  PROVE  /\ Chosen(c) \in Values
         /\ Chosen(c) \in {"option", "malformed"} \/ Chosen(c) = runtime.credential[c]
              \/ (MustGenerate(c) /\ Chosen(c) \in Generated)
         /\ Chosen(c) # None
<1>1. Option(c) \in {None, "option", "malformed"}
  BY OptionTypes DEF Option, IInv, TypeOK
<1>2. runtime.credential[c] \in Values \cup {None}
  BY DEF IInv, TypeOK, Runtimes
<1>3. None \notin Values
  BY NoneAssumption
<1> QED
  BY <1>1, <1>2, <1>3, RandomIsNew DEF Chosen, MustGenerate, Values

(* A required credential: what changes.                                    *)
LEMMA CredentialStored ==
  ASSUME IInv, NEW c \in Credentials, NEW to, RequireOrGenerate(c, to)
  PROVE  /\ runtime \in Runtimes /\ runtime' \in Runtimes
         /\ runtime'.credential[c] = Chosen(c)
         /\ \A d \in Credentials \ {c} : runtime'.credential[d] = runtime.credential[d]
         /\ runtime'.url = runtime.url
<1>1. runtime # None /\ runtime \in Runtimes
  BY DEF RequireOrGenerate, Goto, IInv, KeyInUse, TypeOK, Unread, Credentials
<1>2. Chosen(c) \in Values \cup {None}
  BY <1>1, ChosenCredential
<1>3. runtime' = [runtime EXCEPT !.credential[c] = Chosen(c)]
  BY DEF RequireOrGenerate
<1> QED
  BY <1>1, <1>2, <1>3, RuntimeUpdate

-----------------------------------------------------------------------------

(* A new installation, or one of an older release.                         *)
LEMMA InitIInv == Init => IInv
<1> SUFFICES ASSUME Init PROVE IInv
  OBVIOUS
<1> USE DEF Markers, Credentials, Databases
<1>1. /\ pc = "stopped" /\ options \in OptionSets /\ runtime = None
      /\ marker = [m \in Markers |-> None]
      /\ generatedFile = NoCredentials
      /\ generatedKeys = {} /\ consumed = FALSE /\ answered = TRUE /\ calm = FALSE
  BY DEF Init
<1>2. /\ legacyEnv \in BOOLEAN /\ used \in BOOLEAN
      /\ tokenFile \in SetupTokens \cup {None}
      /\ legacyMarker \in [Markers -> SetupTokens \cup {None}]
      /\ owners \subseteq Databases
      /\ hubKey \in {None, "legacy"}
      /\ hubKey # None => legacyEnv /\ hubKey = "legacy"
  BY DEF Init
<1>3. /\ spent \subseteq {options.token}
      /\ spent \subseteq SetupTokens
      /\ \A t \in spent : legacyMarker["option"] = t
      /\ used => legacyMarker["issued"] # None
  <2>1. CASE spent = {} /\ used = FALSE
    BY <2>1
  <2>2. CASE legacyEnv = TRUE
    <3>1. legacyEnv # FALSE
      BY <2>2
    <3>2. PICK t \in SetupTokens :
            /\ legacyMarker = [m \in Markers |->
                 IF m = "option" /\ t = Fresh THEN None ELSE t]
            /\ spent = IF used THEN {t} \cap {options.token} ELSE {}
      BY <3>1, Zenon DEF Init
    <3>3. options.token # Fresh
      BY <1>1, OptionTypes
    <3>4. t # None
      BY NoneAssumption
    <3> QED
      BY <3>2, <3>3, <3>4
  <2> QED
    BY <2>1, <2>2 DEF Init
<1>4. TypeOK
  <2>1. marker \in [Markers -> SetupTokens \cup {None}]
    BY <1>1
  <2>2. generatedFile \in [Credentials -> Generated \cup {None}]
    BY <1>1 DEF NoCredentials
  <2>3. spent \subseteq Tokens
    BY <1>1, <1>3, OptionTypes DEF SetupTokens
  <2>4. {consumed, answered, used, calm} \subseteq BOOLEAN
    BY <1>1, <1>2, Zenon
  <2>5. hubKey \in Values \cup {None}
    BY <1>2 DEF Values
  <2> QED
    BY <1>1, <1>2, <2>1, <2>2, <2>3, <2>4, <2>5 DEF TypeOK
<1>5. MarkersMoved /\ KeyInUse /\ GeneratedNow /\ DatabaseChosen
  BY <1>1, <1>2 DEF MarkersMoved, KeyInUse, GeneratedNow, Unissued, Unmoved, Unread,
     DatabaseChosen, Staged, Checked
<1>6. SpentIsMarked /\ UsedIsMarked
  BY <1>1, <1>3 DEF SpentIsMarked, UsedIsMarked
<1>7. StagedIsMarked /\ OwnerOrToken
  BY <1>1 DEF StagedIsMarked, OwnerOrToken, Staged, Checked
<1> QED
  BY <1>4, <1>5, <1>6, <1>7 DEF IInv

-----------------------------------------------------------------------------

(* The runtime state holds credentials and a database, a running Hub a key. *)
LEMMA RuntimeStep ==
  IInv /\ [Next]_vars =>
    /\ runtime' \in {None} \cup Runtimes
    /\ hubKey' \in Values \cup {None}
    /\ pc' = "running" => hubKey' # None
    /\ generatedFile' \in [Credentials -> Generated \cup {None}]
<1> SUFFICES ASSUME IInv, [Next]_vars
    PROVE /\ runtime' \in {None} \cup Runtimes
          /\ hubKey' \in Values \cup {None}
          /\ pc' = "running" => hubKey' # None
          /\ generatedFile' \in [Credentials -> Generated \cup {None}]
  OBVIOUS
<1> USE DEF IInv, TypeOK, Goto, OnlyShell, files, history
<1>1. CASE MigrateState
  <2>1. [credential |-> NoCredentials, url |-> None, mode |-> None] \in Runtimes
    BY DEF NoCredentials, Runtimes
  <2>2. LegacyRuntime \in Runtimes
    BY DEF LegacyRuntime, Runtimes, Values, Databases
  <2> QED
    BY <1>1, <2>1, <2>2 DEF MigrateState
<1>2. CASE GetCredentials
  <2>1. runtime' \in Runtimes
    BY <1>2, CredentialStored DEF GetCredentials, Credentials
  <2> QED
    BY <1>2, <2>1 DEF GetCredentials, RequireOrGenerate
<1>3. CASE ChooseDatabase \/ PersistMode
  <2>1. runtime \in Runtimes
    BY <1>3 DEF ChooseDatabase, PersistMode, KeyInUse, Unread
  <2>2. /\ runtime.url \in Databases \cup {None}
        /\ \A url \in Databases \cup {None} :
             /\ [runtime EXCEPT !.url = url] \in Runtimes
             /\ [runtime EXCEPT !.mode = url] \in Runtimes
    BY <2>1 DEF Runtimes
  <2> QED
    BY <1>3, <2>2 DEF ChooseDatabase, PersistMode, PersistUrl, Databases
<1>4. CASE WriteSummary
  <2>1. \A c \in generatedKeys : runtime.credential[c] \in Generated
    BY <1>4 DEF WriteSummary, GeneratedNow
  <2> QED
    BY <1>4, <2>1 DEF WriteSummary
<1>5. CASE Exec
  <2>1. /\ runtime # None /\ runtime.credential["encryption"] # None
    BY <1>5 DEF Exec, KeyInUse, Unread, Unissued, Unmoved, Credentials
  <2>2. runtime.credential["encryption"] \in Values
    BY <2>1 DEF Runtimes, Credentials
  <2> QED
    BY <1>5, <2>1, <2>2 DEF Exec
<1>6. CASE Start \/ RemoveEnv \/ MoveMarkers \/ Fail \/ Kill \/ CalmDown
  BY <1>6 DEF Start, RemoveEnv, MoveMarkers, MoveMarker, Fail, Kill, CalmDown
<1>7. CASE PasswordReplacesToken \/ StageConfiguredToken \/ MarkOption \/ MarkIssued
  BY <1>7 DEF PasswordReplacesToken, StageConfiguredToken, MarkOption, MarkIssued,
     WriteToken, WriteMarker
<1>8. CASE ReusePendingToken \/ FindTokenConsumed \/ IssueFirstToken
  BY <1>8 DEF ReusePendingToken, FindTokenConsumed, IssueFirstToken, WriteToken
<1>9. CASE OwnerCheckPasses \/ ReissueToken \/ MarkReissued \/ CheckKey
  BY <1>9 DEF OwnerCheckPasses, ReissueToken, MarkReissued, CheckKey, WriteToken, WriteMarker
<1>10. CASE HubCreatesOwner \/ HubRemovesToken \/ NewExternalDatabase
  BY <1>10 DEF HubCreatesOwner, HubRemovesToken, NewExternalDatabase, WriteToken
<1>11. CASE \E new \in OptionSets : ChangeOptions(new)
  BY <1>11 DEF ChangeOptions
<1>12. CASE UNCHANGED vars
  BY <1>12 DEF vars
<1> QED
  BY <1>1, <1>2, <1>3, <1>4, <1>5, <1>6, <1>7, <1>8, <1>9, <1>10, <1>11, <1>12
     DEF Next, ScriptStep

(* The token file and the markers hold tokens.                             *)
LEMMA TokenStep ==
  IInv /\ [Next]_vars =>
    /\ options' \in OptionSets
    /\ tokenFile' \in SetupTokens \cup {None}
    /\ marker' \in [Markers -> SetupTokens \cup {None}]
    /\ legacyMarker' \in [Markers -> SetupTokens \cup {None}]
    /\ spent' \subseteq Tokens
<1> SUFFICES ASSUME IInv, [Next]_vars
    PROVE /\ options' \in OptionSets
          /\ tokenFile' \in SetupTokens \cup {None}
          /\ marker' \in [Markers -> SetupTokens \cup {None}]
          /\ legacyMarker' \in [Markers -> SetupTokens \cup {None}]
          /\ spent' \subseteq Tokens
  OBVIOUS
<1> USE DEF IInv, TypeOK, Goto, OnlyShell, files, history
<1>1. CASE MoveMarkers
  BY <1>1 DEF MoveMarkers, MoveMarker, Markers
<1>2. CASE PasswordReplacesToken \/ StageConfiguredToken \/ IssueFirstToken \/ ReissueToken
  BY <1>2, OptionTypes DEF PasswordReplacesToken, StageConfiguredToken, IssueFirstToken,
     ReissueToken, WriteToken, SetupTokens
<1>3. CASE MarkOption \/ MarkIssued \/ MarkReissued
  BY <1>3 DEF MarkOption, MarkIssued, MarkReissued, WriteMarker
<1>4. CASE FindTokenConsumed
  BY <1>4 DEF FindTokenConsumed, Markers
<1>5. CASE HubCreatesOwner
  <2>1. tokenFile # options.token \/ options.token \in Tokens \/ ~Pending
    BY OptionTypes DEF Pending
  <2>2. spent' \subseteq spent \cup ({tokenFile} \cap {options.token})
    BY <1>5 DEF HubCreatesOwner
  <2>3. options.password \/ Pending
    BY <1>5 DEF HubCreatesOwner
  <2>4. spent' \subseteq Tokens
    <3>1. CASE options.password
      BY <1>5, <3>1 DEF HubCreatesOwner
    <3>2. CASE Pending
      BY <2>1, <2>2, <3>2
    <3> QED
      BY <2>3, <3>1, <3>2
  <2> QED
    BY <1>5, <2>4 DEF HubCreatesOwner
<1>6. CASE \E new \in OptionSets : ChangeOptions(new)
  BY <1>6 DEF ChangeOptions
<1>7. CASE Start \/ MigrateState \/ RemoveEnv \/ GetCredentials \/ ReusePendingToken
  BY <1>7 DEF Start, MigrateState, RemoveEnv, GetCredentials, RequireOrGenerate,
     ReusePendingToken
<1>8. CASE ChooseDatabase \/ PersistMode \/ OwnerCheckPasses \/ CheckKey
  BY <1>8 DEF ChooseDatabase, PersistMode, PersistUrl, OwnerCheckPasses, CheckKey
<1>9. CASE WriteSummary \/ Exec \/ Fail \/ Kill
  BY <1>9 DEF WriteSummary, Exec, Fail, Kill
<1>10. CASE HubRemovesToken \/ NewExternalDatabase \/ CalmDown
  BY <1>10 DEF HubRemovesToken, NewExternalDatabase, CalmDown, WriteToken
<1>11. CASE UNCHANGED vars
  BY <1>11 DEF vars
<1> QED
  BY <1>1, <1>2, <1>3, <1>4, <1>5, <1>6, <1>7, <1>8, <1>9, <1>10, <1>11
     DEF Next, ScriptStep

(* What is left of the types.                                              *)
LEMMA ScriptTypes ==
  IInv /\ [Next]_vars =>
    /\ pc' \in Steps \cup {"stopped", "running"}
    /\ legacyEnv' \in BOOLEAN
    /\ owners' \subseteq Databases
    /\ generatedKeys' \subseteq Credentials
    /\ {consumed', answered', used', calm'} \subseteq BOOLEAN
<1> SUFFICES ASSUME IInv, [Next]_vars
    PROVE /\ pc' \in Steps \cup {"stopped", "running"}
          /\ legacyEnv' \in BOOLEAN
          /\ owners' \subseteq Databases
          /\ generatedKeys' \subseteq Credentials
          /\ {consumed', answered', used', calm'} \subseteq BOOLEAN
  OBVIOUS
<1> USE DEF IInv, TypeOK, Goto, OnlyShell, files, history, shell, Steps
<1>1. CASE Start \/ MigrateState \/ RemoveEnv \/ MoveMarkers
  BY <1>1 DEF Start, MigrateState, RemoveEnv, MoveMarkers, MoveMarker
<1>2. CASE GetCredentials
  BY <1>2 DEF GetCredentials, RequireOrGenerate, Credentials
<1>3. CASE PasswordReplacesToken \/ StageConfiguredToken \/ MarkOption \/ MarkIssued
  BY <1>3 DEF PasswordReplacesToken, StageConfiguredToken, MarkOption, MarkIssued,
     WriteToken, WriteMarker
<1>4. CASE ReusePendingToken \/ FindTokenConsumed \/ IssueFirstToken
  BY <1>4 DEF ReusePendingToken, FindTokenConsumed, IssueFirstToken, WriteToken
<1>5. CASE ChooseDatabase \/ PersistMode
  BY <1>5 DEF ChooseDatabase, PersistMode, PersistUrl
<1>6. CASE OwnerCheckPasses \/ ReissueToken \/ MarkReissued \/ CheckKey
  BY <1>6 DEF OwnerCheckPasses, ReissueToken, MarkReissued, CheckKey, WriteToken, WriteMarker
<1>7. CASE WriteSummary \/ Exec \/ Fail \/ Kill \/ CalmDown
  BY <1>7 DEF WriteSummary, Exec, Fail, Kill, CalmDown
<1>8. CASE HubCreatesOwner
  <2>1. owners' \subseteq Databases
    <3>1. runtime \in Runtimes /\ runtime.url # None
      BY <1>8 DEF HubCreatesOwner, KeyInUse, Unread, DatabaseChosen, Staged, Checked
    <3>2. runtime.url \in Databases
      BY <3>1 DEF Runtimes
    <3> QED
      BY <1>8, <3>2 DEF HubCreatesOwner
  <2> QED
    BY <1>8, <2>1 DEF HubCreatesOwner
<1>9. CASE HubRemovesToken \/ NewExternalDatabase
  BY <1>9 DEF HubRemovesToken, NewExternalDatabase, WriteToken
<1>10. CASE \E new \in OptionSets : ChangeOptions(new)
  BY <1>10 DEF ChangeOptions
<1>11. CASE UNCHANGED vars
  BY <1>11 DEF vars
<1> QED
  BY <1>1, <1>2, <1>3, <1>4, <1>5, <1>6, <1>7, <1>8, <1>9, <1>10, <1>11
     DEF Next, ScriptStep

-----------------------------------------------------------------------------

(* The migration ends only when the old markers are gone.                  *)
LEMMA MarkersMovedStep == IInv /\ [Next]_vars => MarkersMoved'
<1> SUFFICES ASSUME IInv, [Next]_vars PROVE MarkersMoved'
  OBVIOUS
<1> USE DEF IInv, MarkersMoved, Goto, OnlyShell, files, history, Unissued, Unmoved, Unread
<1>1. CASE Start \/ MigrateState \/ RemoveEnv \/ GetCredentials
  BY <1>1 DEF Start, MigrateState, RemoveEnv, GetCredentials, RequireOrGenerate
<1>2. CASE MoveMarkers
  BY <1>2 DEF MoveMarkers, MoveMarker, TypeOK, Markers
<1>3. CASE PasswordReplacesToken \/ StageConfiguredToken \/ MarkOption \/ MarkIssued
  BY <1>3 DEF PasswordReplacesToken, StageConfiguredToken, MarkOption, MarkIssued,
     WriteToken, WriteMarker
<1>4. CASE ReusePendingToken \/ FindTokenConsumed \/ IssueFirstToken
  BY <1>4 DEF ReusePendingToken, FindTokenConsumed, IssueFirstToken, WriteToken
<1>5. CASE ChooseDatabase \/ PersistMode
  BY <1>5 DEF ChooseDatabase, PersistMode, PersistUrl
<1>6. CASE OwnerCheckPasses \/ ReissueToken \/ MarkReissued \/ CheckKey
  BY <1>6 DEF OwnerCheckPasses, ReissueToken, MarkReissued, CheckKey, WriteToken, WriteMarker
<1>7. CASE WriteSummary \/ Exec \/ Fail \/ Kill \/ CalmDown
  BY <1>7 DEF WriteSummary, Exec, Fail, Kill, CalmDown
<1>8. CASE HubCreatesOwner \/ HubRemovesToken \/ NewExternalDatabase
  BY <1>8 DEF HubCreatesOwner, HubRemovesToken, NewExternalDatabase, WriteToken
<1>9. CASE \E new \in OptionSets : ChangeOptions(new)
  BY <1>9 DEF ChangeOptions
<1>10. CASE UNCHANGED vars
  BY <1>10 DEF vars
<1> QED
  BY <1>1, <1>2, <1>3, <1>4, <1>5, <1>6, <1>7, <1>8, <1>9, <1>10 DEF Next, ScriptStep

(* The database is chosen before anything asks for its owner.              *)
LEMMA DatabaseChosenStep == IInv /\ [Next]_vars => DatabaseChosen'
<1> SUFFICES ASSUME IInv, [Next]_vars PROVE DatabaseChosen'
  OBVIOUS
<1> USE DEF IInv, DatabaseChosen, Goto, OnlyShell, files, history, Staged, Checked
<1>1. CASE Start \/ MigrateState \/ RemoveEnv \/ MoveMarkers \/ GetCredentials
  BY <1>1 DEF Start, MigrateState, RemoveEnv, MoveMarkers, MoveMarker, GetCredentials,
     RequireOrGenerate
<1>2. CASE PasswordReplacesToken \/ StageConfiguredToken \/ MarkOption \/ MarkIssued
  BY <1>2 DEF PasswordReplacesToken, StageConfiguredToken, MarkOption, MarkIssued,
     WriteToken, WriteMarker
<1>3. CASE ReusePendingToken \/ FindTokenConsumed \/ IssueFirstToken
  BY <1>3 DEF ReusePendingToken, FindTokenConsumed, IssueFirstToken, WriteToken
<1>4. CASE ChooseDatabase \/ PersistMode
  <2>1. runtime \in Runtimes
    BY <1>4 DEF ChooseDatabase, PersistMode, KeyInUse, TypeOK, Unread
  <2>2. /\ \A url : [runtime EXCEPT !.url = url].url = url
        /\ [runtime EXCEPT !.mode = runtime.url].url = runtime.url
    BY <2>1 DEF Runtimes
  <2> QED
    BY <1>4, <2>2, NoneAssumption DEF ChooseDatabase, PersistMode, PersistUrl, Databases
<1>5. CASE OwnerCheckPasses \/ ReissueToken \/ MarkReissued \/ CheckKey
  BY <1>5 DEF OwnerCheckPasses, ReissueToken, MarkReissued, CheckKey, WriteToken, WriteMarker
<1>6. CASE WriteSummary \/ Exec \/ Fail \/ Kill \/ CalmDown
  BY <1>6 DEF WriteSummary, Exec, Fail, Kill, CalmDown
<1>7. CASE HubCreatesOwner \/ HubRemovesToken \/ NewExternalDatabase
  BY <1>7 DEF HubCreatesOwner, HubRemovesToken, NewExternalDatabase, WriteToken
<1>8. CASE \E new \in OptionSets : ChangeOptions(new)
  BY <1>8 DEF ChangeOptions
<1>9. CASE UNCHANGED vars
  BY <1>9 DEF vars
<1> QED
  BY <1>1, <1>2, <1>3, <1>4, <1>5, <1>6, <1>7, <1>8, <1>9 DEF Next, ScriptStep

(* A stored key is replaced only by a configured one, over the migration   *)
(* too.                                                                    *)
LEMMA KeyInUseStep == IInv /\ [Next]_vars => KeyInUse'
<1> SUFFICES ASSUME IInv, [Next]_vars PROVE KeyInUse'
  OBVIOUS
<1> USE DEF IInv, KeyInUse, Goto, OnlyShell, files, history, Unissued, Unmoved, Unread,
            Credentials
<1>1. CASE MigrateState
  <2>1. [credential |-> NoCredentials, url |-> None, mode |-> None] # None /\ LegacyRuntime # None
    <3>1. /\ [credential |-> NoCredentials, url |-> None, mode |-> None] \in Runtimes
          /\ LegacyRuntime \in Runtimes
      BY DEF NoCredentials, LegacyRuntime, Runtimes, Values, Databases
    <3> QED
      BY <3>1, NoneAssumption, Zenon
  <2>2. LegacyRuntime.credential["encryption"] = "legacy"
    BY DEF LegacyRuntime
  <2>3. UNCHANGED hubKey /\ pc' \in {"optionMarker", "removeEnv"}
    BY <1>1 DEF MigrateState
  <2> QED
    BY <1>1, <2>1, <2>2, <2>3 DEF MigrateState
<1>2. CASE GetCredentials
  <2>1. PICK c \in Credentials, to \in {"encryption", "token"} :
          RequireOrGenerate(c, to) /\ (c = "encryption" <=> to = "token")
    BY <1>2 DEF GetCredentials
  <2>2. runtime # None /\ UNCHANGED hubKey /\ pc' = to
    BY <2>1 DEF RequireOrGenerate
  <2>3. runtime' # None
    BY <2>1, CredentialStored, NoneAssumption
  <2>4. CASE c = "owner"
    BY <2>1, <2>2, <2>3, <2>4, CredentialStored
  <2>5. CASE c = "encryption"
    <3>1. Chosen(c) # None
      BY <2>2, ChosenCredential
    <3>2. hubKey # None => ~MustGenerate(c)
      BY <2>2, <2>5, NoneAssumption DEF MustGenerate, TypeOK, Values
    <3> QED
      BY <2>1, <2>2, <2>3, <2>5, <3>1, <3>2, CredentialStored, ChosenCredential
  <2> QED
    BY <2>4, <2>5 DEF Credentials
<1>3. CASE ChooseDatabase \/ PersistMode
  <2>1. runtime \in Runtimes
    BY <1>3 DEF ChooseDatabase, PersistMode, TypeOK
  <2>2. \A url \in Databases \cup {None} :
          /\ [runtime EXCEPT !.url = url].credential = runtime.credential
          /\ [runtime EXCEPT !.mode = url].credential = runtime.credential
    BY <2>1 DEF Runtimes
  <2>3. runtime.url \in Databases \cup {None}
    BY <2>1 DEF Runtimes
  <2>4. runtime' # None
    BY <1>3, RuntimeStep, NoneAssumption, <2>1, <2>3
       DEF ChooseDatabase, PersistMode, PersistUrl, Databases, Runtimes
  <2> QED
    BY <1>3, <2>2, <2>3, <2>4 DEF ChooseDatabase, PersistMode, PersistUrl, Databases
<1>4. CASE Start \/ RemoveEnv \/ MoveMarkers
  BY <1>4 DEF Start, RemoveEnv, MoveMarkers, MoveMarker
<1>5. CASE PasswordReplacesToken \/ StageConfiguredToken \/ MarkOption \/ MarkIssued
  BY <1>5 DEF PasswordReplacesToken, StageConfiguredToken, MarkOption, MarkIssued,
     WriteToken, WriteMarker
<1>6. CASE ReusePendingToken \/ FindTokenConsumed \/ IssueFirstToken
  BY <1>6 DEF ReusePendingToken, FindTokenConsumed, IssueFirstToken, WriteToken
<1>7. CASE OwnerCheckPasses \/ ReissueToken \/ MarkReissued \/ CheckKey
  BY <1>7 DEF OwnerCheckPasses, ReissueToken, MarkReissued, CheckKey, WriteToken, WriteMarker
<1>8. CASE WriteSummary \/ Exec \/ Fail \/ Kill \/ CalmDown
  BY <1>8 DEF WriteSummary, Exec, Fail, Kill, CalmDown
<1>9. CASE HubCreatesOwner \/ HubRemovesToken \/ NewExternalDatabase
  BY <1>9 DEF HubCreatesOwner, HubRemovesToken, NewExternalDatabase, WriteToken
<1>10. CASE \E new \in OptionSets : ChangeOptions(new)
  BY <1>10 DEF ChangeOptions
<1>11. CASE UNCHANGED vars
  BY <1>11 DEF vars
<1> QED
  BY <1>1, <1>2, <1>3, <1>4, <1>5, <1>6, <1>7, <1>8, <1>9, <1>10, <1>11
     DEF Next, ScriptStep

(* A credential in GENERATED_KEYS is stored as it was generated.           *)
LEMMA GeneratedNowStep == IInv /\ [Next]_vars => GeneratedNow'
<1> SUFFICES ASSUME IInv, [Next]_vars PROVE GeneratedNow'
  OBVIOUS
<1> USE DEF IInv, GeneratedNow, Goto, OnlyShell, files, history, shell, Unissued, Unmoved,
            Unread, Credentials
<1>1. CASE GetCredentials
  <2>1. PICK c \in Credentials, to \in {"encryption", "token"} :
          RequireOrGenerate(c, to) /\ (c = "encryption" <=> to = "token")
    BY <1>1 DEF GetCredentials
  <2>2. /\ runtime # None /\ pc = c /\ pc' = to
        /\ generatedKeys' = generatedKeys \cup (IF MustGenerate(c) THEN {c} ELSE {})
    BY <2>1 DEF RequireOrGenerate, KeyInUse
  <2>3. c \notin generatedKeys
    BY <2>2
  <2>4. MustGenerate(c) => runtime'.credential[c] \in Generated
    BY <2>1, CredentialStored, RandomIsNew DEF MustGenerate, Chosen
  <2>5. \A d \in generatedKeys : runtime'.credential[d] \in Generated
    BY <2>1, <2>2, <2>3, CredentialStored DEF TypeOK
  <2>6. \A d \in generatedKeys' : runtime'.credential[d] \in Generated
    BY <2>2, <2>4, <2>5
  <2> QED
    BY <2>1, <2>2, <2>6
<1>2. CASE ChooseDatabase \/ PersistMode
  <2>1. runtime \in Runtimes
    BY <1>2 DEF ChooseDatabase, PersistMode, TypeOK, KeyInUse
  <2>2. /\ \A url : [runtime EXCEPT !.url = url].credential = runtime.credential
        /\ \A url : [runtime EXCEPT !.mode = url].credential = runtime.credential
    BY <2>1 DEF Runtimes
  <2> QED
    BY <1>2, <2>2 DEF ChooseDatabase, PersistMode, PersistUrl
<1>3. CASE Start \/ MigrateState \/ RemoveEnv \/ MoveMarkers
  BY <1>3 DEF Start, MigrateState, RemoveEnv, MoveMarkers, MoveMarker
<1>4. CASE PasswordReplacesToken \/ StageConfiguredToken \/ MarkOption \/ MarkIssued
  BY <1>4 DEF PasswordReplacesToken, StageConfiguredToken, MarkOption, MarkIssued,
     WriteToken, WriteMarker
<1>5. CASE ReusePendingToken \/ FindTokenConsumed \/ IssueFirstToken
  BY <1>5 DEF ReusePendingToken, FindTokenConsumed, IssueFirstToken, WriteToken
<1>6. CASE OwnerCheckPasses \/ ReissueToken \/ MarkReissued \/ CheckKey
  BY <1>6 DEF OwnerCheckPasses, ReissueToken, MarkReissued, CheckKey, WriteToken, WriteMarker
<1>7. CASE WriteSummary \/ Exec \/ Fail \/ Kill \/ CalmDown
  BY <1>7 DEF WriteSummary, Exec, Fail, Kill, CalmDown
<1>8. CASE HubCreatesOwner \/ HubRemovesToken \/ NewExternalDatabase
  BY <1>8 DEF HubCreatesOwner, HubRemovesToken, NewExternalDatabase, WriteToken
<1>9. CASE \E new \in OptionSets : ChangeOptions(new)
  BY <1>9 DEF ChangeOptions
<1>10. CASE UNCHANGED vars
  BY <1>10 DEF vars
<1> QED
  BY <1>1, <1>2, <1>3, <1>4, <1>5, <1>6, <1>7, <1>8, <1>9, <1>10 DEF Next, ScriptStep

(* The marker that names the used token stays, wherever it is, and no      *)
(* other token takes its place while it is configured.                     *)
LEMMA SpentIsMarkedStep == IInv /\ [Next]_vars => SpentIsMarked'
<1> SUFFICES ASSUME IInv, [Next]_vars PROVE SpentIsMarked'
  OBVIOUS
<1> USE DEF IInv, SpentIsMarked, Goto, OnlyShell, files, history
<1>1. CASE MoveMarkers
  <2>1. UNCHANGED <<spent, options>>
    BY <1>1 DEF MoveMarkers, MoveMarker
  <2>2. None \notin spent
    BY NoneAssumption DEF TypeOK, SetupTokens
  <2> QED
    BY <1>1, <2>1, <2>2 DEF MoveMarkers, MoveMarker, TypeOK, Markers
<1>2. CASE MarkOption
  <2>1. tokenFile = options.token
    BY <1>2 DEF MarkOption, StagedIsMarked
  <2>2. marker' = [marker EXCEPT !["option"] = tokenFile]
    BY <1>2 DEF MarkOption, WriteMarker
  <2>3. marker'["option"] = options.token
    BY <2>1, <2>2 DEF TypeOK, Markers
  <2> QED
    BY <1>2, <2>3 DEF MarkOption, WriteMarker
<1>3. CASE MarkIssued \/ MarkReissued \/ FindTokenConsumed
  <2>1. marker'["option"] = marker["option"]
    BY <1>3 DEF MarkIssued, MarkReissued, WriteMarker, FindTokenConsumed, TypeOK, Markers
  <2>2. UNCHANGED <<spent, options, legacyMarker>>
    BY <1>3 DEF MarkIssued, MarkReissued, WriteMarker, FindTokenConsumed
  <2> QED
    BY <2>1, <2>2
<1>4. CASE HubCreatesOwner
  <2>1. spent' = spent \/ (Pending /\ spent' = spent \cup ({tokenFile} \cap {options.token}))
    BY <1>4 DEF HubCreatesOwner
  <2>2. Pending /\ tokenFile = options.token => marker["option"] = tokenFile
    BY <1>4 DEF HubCreatesOwner, StagedIsMarked, Staged, Checked
  <2> QED
    BY <1>4, <2>1, <2>2 DEF HubCreatesOwner
<1>5. CASE \E new \in OptionSets : ChangeOptions(new)
  BY <1>5 DEF ChangeOptions
<1>6. CASE Start \/ MigrateState \/ RemoveEnv \/ GetCredentials
  BY <1>6 DEF Start, MigrateState, RemoveEnv, GetCredentials, RequireOrGenerate
<1>7. CASE PasswordReplacesToken \/ StageConfiguredToken \/ ReusePendingToken \/ IssueFirstToken
  BY <1>7 DEF PasswordReplacesToken, StageConfiguredToken, ReusePendingToken,
     IssueFirstToken, WriteToken
<1>8. CASE ChooseDatabase \/ PersistMode \/ OwnerCheckPasses \/ ReissueToken \/ CheckKey
  BY <1>8 DEF ChooseDatabase, PersistMode, PersistUrl, OwnerCheckPasses, ReissueToken,
     WriteToken, CheckKey
<1>9. CASE WriteSummary \/ Exec \/ Fail \/ Kill \/ CalmDown
  BY <1>9 DEF WriteSummary, Exec, Fail, Kill, CalmDown
<1>10. CASE HubRemovesToken \/ NewExternalDatabase
  BY <1>10 DEF HubRemovesToken, NewExternalDatabase, WriteToken
<1>11. CASE UNCHANGED vars
  BY <1>11 DEF vars
<1> QED
  BY <1>1, <1>2, <1>3, <1>4, <1>5, <1>6, <1>7, <1>8, <1>9, <1>10, <1>11
     DEF Next, ScriptStep

(* A pending token has both markers before the Hub can use it.             *)
LEMMA StagedIsMarkedStep == IInv /\ [Next]_vars => StagedIsMarked'
<1> SUFFICES ASSUME IInv, [Next]_vars PROVE StagedIsMarked'
  OBVIOUS
<1> USE DEF IInv, StagedIsMarked, Pending, Goto, OnlyShell, files, history, Staged, Checked
<1>1. Fresh # None /\ options.token # Fresh
  BY OptionTypes, NoneAssumption DEF TypeOK, SetupTokens
<1>2. CASE MarkOption
  <2>1. marker'["option"] = tokenFile
    BY <1>2 DEF MarkOption, WriteMarker, TypeOK, Markers
  <2> QED
    BY <1>2, <2>1 DEF MarkOption, WriteMarker
<1>3. CASE MarkIssued
  <2>1. marker'["issued"] = tokenFile /\ marker'["option"] = marker["option"]
    BY <1>3 DEF MarkIssued, WriteMarker, TypeOK, Markers
  <2> QED
    BY <1>3, <2>1 DEF MarkIssued, WriteMarker
<1>4. CASE MarkReissued
  <2>1. marker'["issued"] = tokenFile /\ tokenFile = Fresh
    BY <1>4 DEF MarkReissued, WriteMarker, TypeOK, Markers
  <2> QED
    BY <1>1, <1>4, <2>1 DEF MarkReissued, WriteMarker
<1>5. CASE PasswordReplacesToken \/ StageConfiguredToken \/ IssueFirstToken \/ ReissueToken
  BY <1>1, <1>5 DEF PasswordReplacesToken, StageConfiguredToken, NewlyConfigured,
     IssueFirstToken, ReissueToken, WriteToken
<1>6. CASE ReusePendingToken
  BY <1>6 DEF ReusePendingToken, NewlyConfigured
<1>7. CASE FindTokenConsumed
  BY <1>7 DEF FindTokenConsumed
<1>8. CASE Start \/ MigrateState \/ RemoveEnv \/ MoveMarkers \/ GetCredentials
  BY <1>8 DEF Start, MigrateState, RemoveEnv, MoveMarkers, MoveMarker, GetCredentials,
     RequireOrGenerate
<1>9. CASE ChooseDatabase \/ PersistMode \/ OwnerCheckPasses \/ CheckKey
  BY <1>9 DEF ChooseDatabase, PersistMode, PersistUrl, OwnerCheckPasses, CheckKey
<1>10. CASE WriteSummary \/ Exec \/ Fail \/ Kill \/ CalmDown
  BY <1>10 DEF WriteSummary, Exec, Fail, Kill, CalmDown
<1>11. CASE HubCreatesOwner \/ HubRemovesToken \/ NewExternalDatabase
  BY <1>11 DEF HubCreatesOwner, HubRemovesToken, NewExternalDatabase, WriteToken
<1>12. CASE \E new \in OptionSets : ChangeOptions(new)
  BY <1>12 DEF ChangeOptions
<1>13. CASE UNCHANGED vars
  BY <1>13 DEF vars
<1> QED
  BY <1>2, <1>3, <1>4, <1>5, <1>6, <1>7, <1>8, <1>9, <1>10, <1>11, <1>12, <1>13
     DEF Next, ScriptStep

(* The issued marker is written before the Hub runs, and never blanked.    *)
LEMMA UsedIsMarkedStep == IInv /\ [Next]_vars => UsedIsMarked'
<1> SUFFICES ASSUME IInv, [Next]_vars PROVE UsedIsMarked'
  OBVIOUS
<1> USE DEF IInv, UsedIsMarked, Goto, OnlyShell, files, history
<1>1. CASE MoveMarkers
  BY <1>1 DEF MoveMarkers, MoveMarker, TypeOK, Markers
<1>2. CASE MarkOption
  <2>1. marker'["issued"] = marker["issued"]
    BY <1>2 DEF MarkOption, WriteMarker, TypeOK, Markers
  <2> QED
    BY <1>2, <2>1 DEF MarkOption, WriteMarker
<1>3. CASE MarkIssued \/ MarkReissued
  <2>1. tokenFile # None
    BY <1>3, NoneAssumption DEF MarkIssued, MarkReissued, StagedIsMarked, Pending, SetupTokens
  <2>2. marker'["issued"] = tokenFile
    BY <1>3 DEF MarkIssued, MarkReissued, WriteMarker, TypeOK, Markers
  <2> QED
    BY <2>1, <2>2
<1>4. CASE FindTokenConsumed
  <2>1. marker'["issued"] # None
    BY <1>4 DEF FindTokenConsumed, IssuedBefore, TypeOK, Markers
  <2> QED
    BY <2>1
<1>5. CASE HubCreatesOwner
  <2>1. options.password \/ marker["issued"] # None
    BY <1>5 DEF HubCreatesOwner, StagedIsMarked, Staged, Checked
  <2>2. used' => used \/ ~options.password
    BY <1>5 DEF HubCreatesOwner
  <2> QED
    BY <1>5, <2>1, <2>2 DEF HubCreatesOwner
<1>6. CASE Start \/ MigrateState \/ RemoveEnv \/ GetCredentials
  BY <1>6 DEF Start, MigrateState, RemoveEnv, GetCredentials, RequireOrGenerate
<1>7. CASE PasswordReplacesToken \/ StageConfiguredToken \/ ReusePendingToken \/ IssueFirstToken
  BY <1>7 DEF PasswordReplacesToken, StageConfiguredToken, ReusePendingToken,
     IssueFirstToken, WriteToken
<1>8. CASE ChooseDatabase \/ PersistMode \/ OwnerCheckPasses \/ ReissueToken \/ CheckKey
  BY <1>8 DEF ChooseDatabase, PersistMode, PersistUrl, OwnerCheckPasses, ReissueToken,
     WriteToken, CheckKey
<1>9. CASE WriteSummary \/ Exec \/ Fail \/ Kill \/ CalmDown
  BY <1>9 DEF WriteSummary, Exec, Fail, Kill, CalmDown
<1>10. CASE HubRemovesToken \/ NewExternalDatabase
  BY <1>10 DEF HubRemovesToken, NewExternalDatabase, WriteToken
<1>11. CASE \E new \in OptionSets : ChangeOptions(new)
  BY <1>11 DEF ChangeOptions
<1>12. CASE UNCHANGED vars
  BY <1>12 DEF vars
<1> QED
  BY <1>1, <1>2, <1>3, <1>4, <1>5, <1>6, <1>7, <1>8, <1>9, <1>10, <1>11, <1>12
     DEF Next, ScriptStep

(* From the token step on there is a way to an owner, or the script knows  *)
(* that the token is used; the owner check settles which.                  *)
LEMMA OwnerOrTokenStep == IInv /\ [Next]_vars => OwnerOrToken'
<1> SUFFICES ASSUME IInv, [Next]_vars PROVE OwnerOrToken'
  OBVIOUS
<1> USE DEF IInv, OwnerOrToken, Pending, Goto, OnlyShell, files, shell, history, Staged, Checked
<1>1. CASE Start \/ MigrateState \/ RemoveEnv \/ MoveMarkers \/ GetCredentials
  BY <1>1 DEF Start, MigrateState, RemoveEnv, MoveMarkers, MoveMarker, GetCredentials,
     RequireOrGenerate
<1>2. CASE PasswordReplacesToken \/ StageConfiguredToken \/ MarkOption \/ MarkIssued
  BY <1>2 DEF PasswordReplacesToken, StageConfiguredToken, MarkOption, MarkIssued,
     WriteToken, WriteMarker, StagedIsMarked
<1>3. CASE ReusePendingToken \/ FindTokenConsumed \/ IssueFirstToken
  BY <1>3 DEF ReusePendingToken, FindTokenConsumed, IssueFirstToken, WriteToken
<1>4. CASE ChooseDatabase \/ PersistMode
  BY <1>4 DEF ChooseDatabase, PersistMode, PersistUrl
<1>5. CASE OwnerCheckPasses
  BY <1>5 DEF OwnerCheckPasses
<1>6. CASE ReissueToken \/ MarkReissued
  BY <1>6, NoneAssumption DEF ReissueToken, MarkReissued, WriteToken, WriteMarker,
     StagedIsMarked, SetupTokens
<1>7. CASE CheckKey \/ WriteSummary \/ Exec \/ Fail \/ Kill \/ CalmDown
  BY <1>7 DEF CheckKey, WriteSummary, Exec, Fail, Kill, CalmDown
<1>8. CASE HubCreatesOwner \/ HubRemovesToken \/ NewExternalDatabase
  BY <1>8 DEF HubCreatesOwner, HubRemovesToken, NewExternalDatabase, WriteToken
<1>9. CASE \E new \in OptionSets : ChangeOptions(new)
  BY <1>9 DEF ChangeOptions
<1>10. CASE UNCHANGED vars
  BY <1>10 DEF vars
<1> QED
  BY <1>1, <1>2, <1>3, <1>4, <1>5, <1>6, <1>7, <1>8, <1>9, <1>10 DEF Next, ScriptStep

-----------------------------------------------------------------------------

(* The strengthened invariant holds in every reachable state, whatever was *)
(* killed, reconfigured or moved before.                                   *)
THEOREM Invariance == Spec => []IInv
<1>1. IInv /\ [Next]_vars => TypeOK'
  BY RuntimeStep, TokenStep, ScriptTypes, Zenon DEF TypeOK
<1>2. IInv /\ [Next]_vars => IInv'
  BY <1>1, MarkersMovedStep, DatabaseChosenStep, KeyInUseStep, GeneratedNowStep,
     SpentIsMarkedStep, StagedIsMarkedStep, UsedIsMarkedStep, OwnerOrTokenStep, Zenon
     DEF IInv
<1> QED
  BY <1>2, InitIInv, PTL DEF Spec

(* The files keep their form, what the summary names was generated, and a  *)
(* Hub never runs without an encryption key (run.sh:546-552).              *)
THEOREM TypeCorrect == Spec => []TypeOK
<1>1. IInv => TypeOK
  BY DEF IInv
<1> QED
  BY <1>1, Invariance, PTL

(* The Hub never runs with no owner and no way to make one, unless an      *)
(* external database did not answer the owner check (run.sh:483-495).      *)
THEOREM OwnerCanBeMade == Spec => []WayIn
<1>1. IInv => WayIn
  BY DEF IInv, OwnerOrToken, WayIn, Checked
<1> QED
  BY <1>1, Invariance, PTL

(* A configured setup token that made an owner is never staged again while *)
(* it stays configured (run.sh:422-428).                                   *)
THEOREM TokenIsUsedOnce == Spec => ConsumedStaysConsumed
<1>1. IInv /\ [Next]_vars => (tokenFile' \in spent => tokenFile' = tokenFile)
  <2> SUFFICES ASSUME IInv, [Next]_vars, tokenFile' \in spent
      PROVE tokenFile' = tokenFile
    OBVIOUS
  <2> USE DEF Goto, OnlyShell, files
  <2>1. tokenFile' # None /\ tokenFile' # Fresh
    BY TokensAssumption, NoneAssumption DEF IInv, TypeOK, SetupTokens
  <2>2. CASE StageConfiguredToken
    <3>1. legacyMarker["option"] = None
      BY <2>2 DEF StageConfiguredToken, IInv, MarkersMoved, Unmoved, Unread
    <3>2. marker["option"] = options.token
      BY <2>1, <3>1 DEF IInv, SpentIsMarked
    <3> QED
      BY <2>2, <3>2 DEF StageConfiguredToken, NewlyConfigured
  <2>3. CASE PasswordReplacesToken \/ IssueFirstToken \/ ReissueToken \/ HubRemovesToken
    BY <2>1, <2>3 DEF PasswordReplacesToken, IssueFirstToken, ReissueToken,
       HubRemovesToken, WriteToken
  <2>4. CASE Start \/ MigrateState \/ RemoveEnv \/ MoveMarkers \/ GetCredentials
    BY <2>4 DEF Start, MigrateState, RemoveEnv, MoveMarkers, MoveMarker, GetCredentials,
       RequireOrGenerate
  <2>5. CASE MarkOption \/ MarkIssued \/ MarkReissued \/ ReusePendingToken \/ FindTokenConsumed
    BY <2>5 DEF MarkOption, MarkIssued, MarkReissued, WriteMarker, ReusePendingToken,
       FindTokenConsumed
  <2>6. CASE ChooseDatabase \/ PersistMode \/ OwnerCheckPasses \/ CheckKey
    BY <2>6 DEF ChooseDatabase, PersistMode, PersistUrl, OwnerCheckPasses, CheckKey
  <2>7. CASE WriteSummary \/ Exec \/ Fail \/ Kill \/ CalmDown
    BY <2>7 DEF WriteSummary, Exec, Fail, Kill, CalmDown
  <2>8. CASE HubCreatesOwner \/ NewExternalDatabase
    BY <2>8 DEF HubCreatesOwner, NewExternalDatabase
  <2>9. CASE \E new \in OptionSets : ChangeOptions(new)
    BY <2>9 DEF ChangeOptions
  <2>10. CASE UNCHANGED vars
    BY <2>10 DEF vars
  <2> QED
    BY <2>2, <2>3, <2>4, <2>5, <2>6, <2>7, <2>8, <2>9, <2>10 DEF Next, ScriptStep
<1> QED
  BY <1>1, Invariance, PTL DEF Spec, ConsumedStaysConsumed

(* After an owner was made with a token, a new one is made only for a      *)
(* database without owner (run.sh:445-453 and 483-495).                    *)
THEOREM NoTokenForAnOwner == Spec => NoNewSecret
<1>1. IInv /\ [Next]_vars =>
        ((used /\ tokenFile' = Fresh /\ tokenFile # Fresh) => runtime.url \notin owners)
  <2> SUFFICES ASSUME IInv, [Next]_vars, used, tokenFile' = Fresh, tokenFile # Fresh
      PROVE runtime.url \notin owners
    OBVIOUS
  <2> USE DEF Goto, OnlyShell, files
  <2>1. Fresh # None /\ options.token # Fresh
    BY OptionTypes, NoneAssumption DEF IInv, TypeOK, SetupTokens
  <2>2. CASE IssueFirstToken
    <3>1. legacyMarker["issued"] = None
      BY <2>2 DEF IssueFirstToken, IInv, MarkersMoved, Unissued, Unmoved, Unread
    <3>2. IssuedBefore
      BY <3>1 DEF IInv, UsedIsMarked, IssuedBefore
    <3> QED
      BY <2>2, <3>2 DEF IssueFirstToken
  <2>3. CASE ReissueToken
    BY <2>3 DEF ReissueToken
  <2>4. CASE PasswordReplacesToken \/ StageConfiguredToken \/ HubRemovesToken
    BY <2>1, <2>4 DEF PasswordReplacesToken, StageConfiguredToken, HubRemovesToken, WriteToken
  <2>5. CASE Start \/ MigrateState \/ RemoveEnv \/ MoveMarkers \/ GetCredentials
    BY <2>5 DEF Start, MigrateState, RemoveEnv, MoveMarkers, MoveMarker, GetCredentials,
       RequireOrGenerate
  <2>6. CASE MarkOption \/ MarkIssued \/ MarkReissued \/ ReusePendingToken \/ FindTokenConsumed
    BY <2>6 DEF MarkOption, MarkIssued, MarkReissued, WriteMarker, ReusePendingToken,
       FindTokenConsumed
  <2>7. CASE ChooseDatabase \/ PersistMode \/ OwnerCheckPasses \/ CheckKey
    BY <2>7 DEF ChooseDatabase, PersistMode, PersistUrl, OwnerCheckPasses, CheckKey
  <2>8. CASE WriteSummary \/ Exec \/ Fail \/ Kill \/ CalmDown
    BY <2>8 DEF WriteSummary, Exec, Fail, Kill, CalmDown
  <2>9. CASE HubCreatesOwner \/ NewExternalDatabase
    BY <2>9 DEF HubCreatesOwner, NewExternalDatabase
  <2>10. CASE \E new \in OptionSets : ChangeOptions(new)
    BY <2>10 DEF ChangeOptions
  <2>11. CASE UNCHANGED vars
    BY <2>11 DEF vars
  <2> QED
    BY <2>2, <2>3, <2>4, <2>5, <2>6, <2>7, <2>8, <2>9, <2>10, <2>11 DEF Next, ScriptStep
<1> QED
  BY <1>1, Invariance, PTL DEF Spec, NoNewSecret

(* The Hub's key changes only to one the user configured, now or before    *)
(* (run.sh:204-228, runtime-state.sh:40-84).                               *)
THEOREM KeyIsKept == Spec => KeyStable
<1>1. IInv /\ [Next]_vars => ((hubKey' # hubKey /\ hubKey # None) => hubKey' = "option")
  <2> SUFFICES ASSUME IInv, [Next]_vars, hubKey' # hubKey, hubKey # None
      PROVE hubKey' = "option"
    OBVIOUS
  <2> USE DEF Goto, OnlyShell, history
  <2>1. CASE Exec
    <3>1. hubKey' = runtime.credential["encryption"] /\ hubKey' # "malformed" /\ runtime # None
      BY <2>1 DEF Exec, IInv, KeyInUse, Unread
    <3> QED
      BY <3>1 DEF IInv, KeyInUse
  <2>2. CASE Start \/ MigrateState \/ RemoveEnv \/ MoveMarkers \/ GetCredentials
    BY <2>2 DEF Start, MigrateState, RemoveEnv, MoveMarkers, MoveMarker, GetCredentials,
       RequireOrGenerate
  <2>3. CASE PasswordReplacesToken \/ StageConfiguredToken \/ MarkOption \/ MarkIssued
    BY <2>3 DEF PasswordReplacesToken, StageConfiguredToken, MarkOption, MarkIssued,
       WriteToken, WriteMarker
  <2>4. CASE ReusePendingToken \/ FindTokenConsumed \/ IssueFirstToken
    BY <2>4 DEF ReusePendingToken, FindTokenConsumed, IssueFirstToken, WriteToken
  <2>5. CASE ChooseDatabase \/ PersistMode \/ OwnerCheckPasses \/ ReissueToken \/ MarkReissued
    BY <2>5 DEF ChooseDatabase, PersistMode, PersistUrl, OwnerCheckPasses, ReissueToken,
       MarkReissued, WriteToken, WriteMarker
  <2>6. CASE CheckKey \/ WriteSummary \/ Fail \/ Kill \/ CalmDown
    BY <2>6 DEF CheckKey, WriteSummary, Fail, Kill, CalmDown
  <2>7. CASE HubCreatesOwner \/ HubRemovesToken \/ NewExternalDatabase
    BY <2>7 DEF HubCreatesOwner, HubRemovesToken, NewExternalDatabase, WriteToken
  <2>8. CASE \E new \in OptionSets : ChangeOptions(new)
    BY <2>8 DEF ChangeOptions
  <2>9. CASE UNCHANGED vars
    BY <2>9 DEF vars
  <2> QED
    BY <2>1, <2>2, <2>3, <2>4, <2>5, <2>6, <2>7, <2>8, <2>9 DEF Next, ScriptStep
<1> QED
  BY <1>1, Invariance, PTL DEF Spec, KeyStable

=============================================================================
