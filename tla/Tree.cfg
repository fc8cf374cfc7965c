SPECIFICATION MCSpec
CONSTANTS
    Chats = {c1}
    Topics = {t1}
    Messages = {m1}
    Folders = {f1}
    Groups = {}
    Users = {}
    NoTopic = NoTopic
    MaxRows = 1
    TopicChat <- MCTopicChat
    MessageChat <- MCMessageChat
    Batches <- MCBatches
INVARIANTS
    TypeOK
    NoLiveOrphan
    IndexExact
    CountExact
PROPERTIES
    MergeSnapshotKeepsDestination
    KeepsPromise
