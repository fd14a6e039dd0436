CONSTANTS
    BitsPerTriple = 2
    Threads = {0, 1}
    ArgLists <- MCArgLists
    OnlineJobs <- MCOnlineJobs
    Earlier <- MCEarlier
SPECIFICATION FairSpec
INVARIANTS EveryMessageToItsOwn SamePools FilesMatch
PROPERTIES Ends
