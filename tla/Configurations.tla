--------------------------- MODULE Configurations ----------------------------
(***************************************************************************)
(* The payroll policies of the configuration, and their backups.           *)
(*                                                                         *)
(* A policy is edited while it is a draft, and then approved or rejected.  *)
(* A backup writes the policies to a file.  Restoring it turns their       *)
(* identifiers into strings, by which they are not found any more.         *)
(* One of the collections is modelled; what a policy says is abstracted    *)
(* to whether it was edited.  The controller passes a placeholder for the  *)
(* creator and another one for the approver, because a token names its     *)
(* user sub and not id: that they differ always holds, and both are left   *)
(* out.  used is history; configOps bounds the exploration.                *)
(***************************************************************************)
EXTENDS Integers, Sequences, FiniteSets, Handlers

CONSTANTS
    Config,         \* identifiers of policies
    KeptBackups,    \* the number of backups that are kept
    MaxConfigOps    \* bound on the requests that are handled

VARIABLES
    configs,            \* the policy with an identifier, or NULL
    backups,            \* the files, the newest last; NULL where the export failed
    isBackupRunning,    \* the scheduler's flag
    configCalls,        \* the handlers in flight
    used,               \* history: identifiers that policies were created with
    configOps           \* the requests that were handled or are in flight

configVars == <<configs, backups, isBackupRunning, configCalls, used, configOps>>

ConfigStatus == {"DRAFT", "APPROVED", "REJECTED"}

\* approved: approvedBy and approvedAt are set.  found: the identifier is one
\* that findById finds.
ConfigDoc ==
    [status : ConfigStatus, approved : BOOLEAN, edited : BOOLEAN, found : BOOLEAN]

BackupFile == [Config -> ConfigDoc \cup {NULL}]

ConfigCall ==
    [at : {"edit.save"}, config : Config]
      \cup
    [at : {"status.save"}, config : Config, status : ConfigStatus]
      \cup
    [at : {"backup.export"}]
      \cup
    [at : {"restore.clear", "restore.insert"}, file : BackupFile]

ASSUME ConfigurationsAssumption ==
    /\ KeptBackups \in Nat \ {0}
    /\ MaxConfigOps \in Nat
    /\ NULL \notin ConfigDoc \cup BackupFile \cup ConfigCall

Found(c) == configs[c] # NULL /\ configs[c].found

IsDraft(c) == Found(c) /\ configs[c].status = "DRAFT"

-----------------------------------------------------------------------------
(* Policies.                                                               *)

CreateWithUser(c) ==
    /\ c \notin used
    /\ configs' = [configs EXCEPT ![c] =
         [status |-> "DRAFT", approved |-> FALSE, edited |-> FALSE, found |-> TRUE]]
    /\ used' = used \cup {c}
    /\ UNCHANGED <<backups, isBackupRunning, configCalls>>

UpdateWithoutStatus(a, c) ==
    /\ Idle(configCalls, a)
    /\ IsDraft(c)
    /\ configCalls' = Begin(configCalls, a, [at |-> "edit.save", config |-> c])
    /\ UNCHANGED <<configs, backups, isBackupRunning, used>>

UpdateStatus(a, c, status) ==
    /\ Idle(configCalls, a)
    /\ IsDraft(c)
    /\ configCalls' = Begin(configCalls, a,
         [at |-> "status.save", config |-> c, status |-> status])
    /\ UNCHANGED <<configs, backups, isBackupRunning, used>>

\* What the update by identifier makes of the policy, if it still finds it.
Changed(call, doc) ==
    IF call.at = "edit.save"
    THEN [doc EXCEPT !.edited = TRUE]
    ELSE [doc EXCEPT !.status = call.status,
                     !.approved = @ \/ call.status = "APPROVED"]

UpdateById(a) ==
    /\ At(configCalls, a, "edit.save") \/ At(configCalls, a, "status.save")
    /\ LET call == configCalls[a]
       IN  configs' = IF Found(call.config)
                      THEN [configs EXCEPT ![call.config] = Changed(call, @)]
                      ELSE configs
    /\ configCalls' = Finish(configCalls, a)
    /\ UNCHANGED <<backups, isBackupRunning, used>>

\* Whatever the status is.
DeleteConfig(c) ==
    /\ Found(c)
    /\ configs' = [configs EXCEPT ![c] = NULL]
    /\ UNCHANGED <<backups, isBackupRunning, configCalls, used>>

-----------------------------------------------------------------------------
(* Backups.                                                                *)

\* Mutant: the flag is not looked at.
StartBackup(a) ==
    /\ Idle(configCalls, a)
    /\ isBackupRunning' = TRUE
    /\ configCalls' = Begin(configCalls, a, [at |-> "backup.export"])
    /\ UNCHANGED <<configs, backups, used>>

\* handleDailyBackup, which a manual trigger calls, too.
HandleDailyBackup(a) ==
    /\ Idle(configCalls, a)
    /\ ~ isBackupRunning
    /\ isBackupRunning' = TRUE
    /\ configCalls' = Begin(configCalls, a, [at |-> "backup.export"])
    /\ UNCHANGED <<configs, backups, used>>

\* cleanOldBackups.
NewestOf(files) ==
    IF Len(files) <= KeptBackups THEN files
    ELSE SubSeq(files, Len(files) - KeptBackups + 1, Len(files))

\* An export that fails leaves a backup without a file.
BackupConfigSetup(a) ==
    /\ At(configCalls, a, "backup.export")
    /\ \E file \in {configs, NULL} : backups' = NewestOf(Append(backups, file))
    /\ isBackupRunning' = FALSE
    /\ configCalls' = Finish(configCalls, a)
    /\ UNCHANGED <<configs, used>>

\* JSON has no identifiers: they come back as strings.
RestoreBackup(a, i) ==
    /\ Idle(configCalls, a)
    /\ backups[i] # NULL
    /\ configCalls' = Begin(configCalls, a,
         [at |-> "restore.clear",
          file |-> [c \in Config |-> IF backups[i][c] = NULL THEN NULL
                                     ELSE [backups[i][c] EXCEPT !.found = FALSE]]])
    /\ UNCHANGED <<configs, backups, isBackupRunning, used>>

RestoreDeleteMany(a) ==
    /\ At(configCalls, a, "restore.clear")
    /\ configs' = [c \in Config |-> NULL]
    /\ configCalls' = [configCalls EXCEPT ![a].at = "restore.insert"]
    /\ UNCHANGED <<backups, isBackupRunning, used>>

\* insertMany stops at an identifier that is taken, wherever it is in the file.
RestoreInsertMany(a) ==
    /\ At(configCalls, a, "restore.insert")
    /\ LET file == configCalls[a].file
           free == {c \in Config : file[c] # NULL /\ configs[c] = NULL}
           full == \A c \in Config : file[c] # NULL => configs[c] = NULL
       IN  \E in \in SUBSET free :
             /\ full => in = free
             /\ configs' = [c \in Config |-> IF c \in in THEN file[c] ELSE configs[c]]
    /\ configCalls' = Finish(configCalls, a)
    /\ UNCHANGED <<backups, isBackupRunning, used>>

-----------------------------------------------------------------------------

\* A database call throws; the flag is reset whatever happens.
ConfigCallFails(a) ==
    /\ ~ Idle(configCalls, a)
    /\ isBackupRunning' = (isBackupRunning /\ ~ At(configCalls, a, "backup.export"))
    /\ configCalls' = Finish(configCalls, a)
    /\ UNCHANGED <<configs, backups, used>>

\* The process stops, and the flag is forgotten with the calls.
ConfigProcessStops ==
    /\ \E a \in Agent : ~ Idle(configCalls, a)
    /\ configCalls' = [a \in Agent |-> NULL]
    /\ isBackupRunning' = FALSE
    /\ UNCHANGED <<configs, backups, used>>

ConfigurationsInit ==
    /\ configs = [c \in Config |-> NULL]
    /\ backups = <<>>
    /\ isBackupRunning = FALSE
    /\ configCalls = [a \in Agent |-> NULL]
    /\ used = {}
    /\ configOps = 0

RequestConfig ==
    \/ \E c \in Config :
         \/ CreateWithUser(c)
         \/ DeleteConfig(c)
         \/ \E a \in Agent :
              \/ UpdateWithoutStatus(a, c)
              \/ \E status \in ConfigStatus : UpdateStatus(a, c, status)
    \/ \E a \in Agent :
         \/ HandleDailyBackup(a)
         \/ \E i \in DOMAIN backups : RestoreBackup(a, i)

ConfigStep(a) ==
    \/ UpdateById(a) \/ BackupConfigSetup(a)
    \/ RestoreDeleteMany(a) \/ RestoreInsertMany(a)
    \/ ConfigCallFails(a)

ConfigurationsNext ==
    \/ /\ configOps < MaxConfigOps
       /\ configOps' = configOps + 1
       /\ RequestConfig
    \/ /\ configOps' = configOps
       /\ (\E a \in Agent : ConfigStep(a)) \/ ConfigProcessStops

ConfigurationsSpec == ConfigurationsInit /\ [][ConfigurationsNext]_configVars

-----------------------------------------------------------------------------
(* Properties.                                                             *)

\* Every policy, backup, call in flight and history has its type.
ConfigurationsTypeOK ==
    /\ configs \in BackupFile
    /\ backups \in Seq(BackupFile \cup {NULL})
    /\ isBackupRunning \in BOOLEAN
    /\ configCalls \in [Agent -> ConfigCall \cup {NULL}]
    /\ used \subseteq Config
    /\ configOps \in 0..MaxConfigOps

\* "Prevent overlapping backups": one at most is under way, although every
\* failure and every end of one resets the flag.
OneBackupAtATime ==
    Cardinality({a \in Agent : At(configCalls, a, "backup.export")}) <= 1
=============================================================================
