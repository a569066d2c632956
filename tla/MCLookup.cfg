CONSTANTS
    Root = root
    dev = dev
    tty = tty
    nvme5 = nvme5
    mnt = mnt
    shell = shell
    readme = readme
    bin = bin
    ls = ls
    other = other
    Kids <- MCKids
    Ext2 = {mnt, bin}
    Names <- MCNames
    Paths <- FlatPaths
    NPages = 60
SPECIFICATION FairSpec
INVARIANTS
    FindsNamed
    OpenStays
    ExistingFound
PROPERTY LookupEnds
