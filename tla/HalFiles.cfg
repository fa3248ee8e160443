SPECIFICATION Spec
CONSTANTS
  MaxFd = 5
  FileSystems <- MCFileSystems
  Names <- MCNames
  Modes = {"RDWR"}
  Constructors = 1
INVARIANTS NoLeak Streams
PROPERTIES LockKeepsOthersOut ImplementsDescriptors
