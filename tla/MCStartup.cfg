\* Two servers that answer and one that is not wired, two starts of the process,
\* three edits of the permissions file (delete, save, delete).
SPECIFICATION FairSpec
CONSTANTS
    alpha = alpha
    beta = beta
    oauth = oauth
    Servers <- MCServers
    Unwired = {oauth}
    Catalogs <- MCCatalogs
    Existing = {"time"}
    Malformed = {"bad"}
    Foreign = {"accented"}
    Permissions = {"allow"}
    MaxEdits = 3
    MaxBoots = 2
INVARIANTS TransportsOwned RegisterSafe PolicyObeysOperator
PROPERTIES BootEnds
CHECK_DEADLOCK FALSE
