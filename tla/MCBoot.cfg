SPECIFICATION BootSpec
CONSTANTS
  N = 8
  NFrames = 112
  Reserved <- MCReserved
  KernelPages <- MCKernelPages
  UserPages <- MCUserPages
  PGSIZE = 8
  WORD = 2
  STACKSIZE = 5
  STACKVA = 1536
  Programs <- MCPrograms
  Argvs <- MCArgvs
  Garbage <- MCGarbage
  MaxExec = 2
  Calls = {}
  Careful = FALSE
  MaxHeld = 0
  MaxRef = 2
  MaxNode = 9
  MaxVfs = 3
  ProperPrefix <- NamePrefixes
  MaxSteps = 3
  TAR_HEADER_SIZE = 8
  Archives <- MCArchives
  Names <- MCNames
INVARIANTS Isolation KernelShared ArgsOnStack AllCopied StopsOnlyIfMissing RightProgram FilesReferenced
CHECK_DEADLOCK FALSE
