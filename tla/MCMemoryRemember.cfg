SPECIFICATION MemorySpec
CONSTANTS
    user1 = user1
    Requests = {q1, q2}
    Stores = {notes}
    StoreRows <- MCStoreRows
    Users = {user1, user2}
    NoUser = nouser
    Contents = {fact, phrase}
    Secrets = {}
    Phrases = {phrase}
    MaxDocuments = 2
    MaxVersions = 3
    MaxRedactions = 1
PROPERTIES
    EditsBuildOnWhatTheyReplace
CHECK_DEADLOCK FALSE
