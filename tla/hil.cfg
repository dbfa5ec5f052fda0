\* Two processes, one that reads and one that writes; three ways to reset; three
\* images of eight: the ELF with a hash of zeros, a build with its mark and a real hash, one
\* that does not boot.
SPECIFICATION Spec
CONSTANTS
  p = p
  q = q
  Procs = {p, q}
  elf = elf
  hashed = hashed
  dead = dead
  plain = plain
  bumped = bumped
  renamed = renamed
  tarball = tarball
  bare = bare
  Images = {elf, hashed, dead, plain, bumped, renamed, tarball, bare}
  OnBoard = {elf, hashed, dead}
  Build <- MCBuild
  hash_len = 2
  MIN_HASH_LEN = 2
  HASH_PREFIX_LEN = 2
  Elf = elf
  Dead = {dead}
  Commands <- MCCommands
  Hosts <- MCHosts
  TtyNames = {"ttyACM0"}
  FileName <- MCFileName
  Tries = 2
  MaxLines = 1
  None = None
INVARIANTS MatchIsThisBoot OneClaimUnlessRaced NamesTell
PROPERTIES VerdictTrue NoNeedlessWrite RunEnds
