CONSTANTS
    Procs = {init, p2, p3}
    InitProc = init
    FD_TABLE_SIZE = 3
    NTables = 3
    OpenModes = {1, 2}
    Devices = {tty, nvme5}
    Plain = {tty}
    DiskFiles = {shell}
    Volume = nvme5
    NoFile = nofile
SPECIFICATION FilesSpec
SYMMETRY Children
PROPERTY
    DescriptorsKept
