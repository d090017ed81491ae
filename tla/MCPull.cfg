SPECIFICATION FairSpec
CONSTANTS
    f1 = f1
    f2 = f2
    a = a
    b = b
    old = old
    new = new
    p1 = p1
    p2 = p2
    None = None
    Files = {f1, f2}
    Contents = {a, b}
    Revisions = {old, new}
    First = old
    Entry <- Entries
    Size = 2
    Pulls = {p1, p2}
    Rechecks = {p2}
    Retries = 2
    MaxChanges = 1
INVARIANTS TypeOK DownloadedIsGood NothingBadKept
PROPERTIES SuccessDownloads PullEnds
