SPECIFICATION MCSpec
CONSTANTS
    Keys <- MCKeys
    Values <- MCValues
    EnvNames = {"EXECUTOR_ACTION", "EXECUTOR_RUN_NAME", "TF_LOG"}
    OwnEnv = {"EXECUTOR_ACTION", "EXECUTOR_RUN_NAME"}
    MaxConfigs = 1
    MaxSecrets = 2
    MaxFaults = 2
    MaxWrites = 2
INVARIANTS
    SecretsPrevail
    DigestStable
    EditSeen
    OwnEnvPrevails
    KeyFileRemoved
    CommandsReady
    CredentialsOffered
    TerraformSeesRun
PROPERTIES
    CopiesApart
CHECK_DEADLOCK FALSE
