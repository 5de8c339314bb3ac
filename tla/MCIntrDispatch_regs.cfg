SPECIFICATION FairSpec
CONSTANTS
    Channels = {c0}
    Err = err
    Bits = {fatal, info}
    Fatal = {fatal}
INVARIANT MaskedMeansPending
INVARIANT L2MaskedMeansBusy
PROPERTY FatalIsTold
PROPERTY CompletionsTaken
PROPERTY ErrorsSeen
