CONSTANTS
    Updater = {u1, u2}
    Doc = {d1, d2, bad}
    Valid = {d1, d2}
    Loadable = {d1, d2}
    FirstDoc = d1
    Inode = {i1, i2, i3, i4}
    NoInode = NoInode
    Empty = Empty
    Torn = Torn
SPECIFICATION CfgSpec
INVARIANT ConfigSound
