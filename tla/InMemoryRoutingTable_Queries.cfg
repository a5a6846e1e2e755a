CONSTANTS
    e1 = e1
    e2 = e2
    e3 = e3
    e4 = e4
    h1 = h1
    h2 = h2
    h3 = h3
    p1 = p1
    p2 = p2
    Nil = Nil
    MaxInput = 2
    Entries <- MCEntries
    Hashes <- MCHashes
    Hash <- MCHash
    Valid <- MCValid
    Plugins <- MCPlugins
    Src <- MCSrc
    Dst <- MCDst
SPECIFICATION Spec
INVARIANT QueryAnswersTable
