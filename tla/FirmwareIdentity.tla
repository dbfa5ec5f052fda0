---------------------------- MODULE FirmwareIdentity ---------------------------
(* Which image is on a board: what a build is named (m5stack-core-build,        *)
(* app_desc! in src/lib.rs), what the firmware prints of it, what the host      *)
(* reads in a console line and in an ELF (identity.rs), and when the two agree  *)
(* (flash.rs). Names are sequences of parts, hashes sequences of digits.        *)
EXTENDS Naturals, Sequences, Functions, FiniteSetsExt, TLC

CONSTANTS
  Images,                   \* the images there are
  Build,                    \* what each was built from
  hash_len, MIN_HASH_LEN,   \* digits of the commit in a mark: asked for, and at least
  HASH_PREFIX_LEN,          \* digits of the file's hash that are printed
  None                      \* no identity, and no descriptor

\* A commit without digits is no git checkout. chance: what looks like a
\* descriptor in the file before the one app_desc! puts there.
ASSUME BuildAssumption ==
  \A i \in Images :
    LET b == Build[i] IN
      /\ b.app_desc \in BOOLEAN /\ b.identity \in BOOLEAN /\ b.dirty \in BOOLEAN
      /\ b.commit \in Seq(Nat) /\ b.sha256 \in Seq(Nat)
      /\ Len(b.sha256) >= HASH_PREFIX_LEN
      /\ b.chance \in Seq([whole : BOOLEAN, plausible : BOOLEAN])
      /\ \A c \in Range(b.chance) : ~(c.whole /\ c.plausible)
ASSUME LengthAssumption ==
  /\ hash_len \in Nat /\ MIN_HASH_LEN \in Nat \ {0} /\ HASH_PREFIX_LEN \in Nat \ {0}

Digits(s, n) == SubSeq(s, 1, Min({n, Len(s)}))

\* abbreviate, and "unknown" for what is not a hash.
Abbreviated(b) ==
  IF b.commit = << >> THEN <<"unknown">>
  ELSE <<Digits(b.commit, Max({hash_len, MIN_HASH_LEN})), b.dirty>>

\* M5STACK_CORE_BUILD_MARK.
Mark(b) == b.features \o Abbreviated(b)

\* app_desc!: under the identity feature the version field holds the mark, and
\* before it the package and the binary, or the prefix the macro was given.
Descriptor(b) ==
  [version |-> IF b.identity THEN b.name \o Mark(b) ELSE <<b.version>>,
   project_name |-> <<b.bin>>]

\* The hash field of the flashed image: zeros, unless the tool patched it.
Stored(b) == IF b.patched THEN b.sha256 ELSE [i \in DOMAIN b.sha256 |-> 0]

\* log_boot_identity: what follows the marker on the line.
Printed(i) ==
  LET b == Build[i] IN
  << IF b.identity THEN Descriptor(b).version ELSE Descriptor(b).project_name,
     <<b.version>>,
     Digits(Stored(b), HASH_PREFIX_LEN) >>

\* A line that lost its end: whole fields, and maybe part of the hash.
CutShort(line) ==
  {SubSeq(line, 1, k) : k \in 0..(Len(line) - 1)}
  \cup {[line EXCEPT ![3] = Digits(@, k)] : k \in 1..(Len(line[3]) - 1)}

\* from_line: every part, or no identity. Its refusals of a hash that is not hex,
\* and of a mark that begins like the version's key, are left out: no line the
\* firmware prints, whole or cut short, has either.
FromLine(line) ==
  IF Len(line) < 3 THEN None
  ELSE [mark |-> line[1], version |-> line[2], sha256_prefix |-> line[3]]

\* The magic words of a file, in its order.
Candidates(i) ==
  LET b == Build[i] IN
  [k \in DOMAIN b.chance |->
     [whole |-> b.chance[k].whole, plausible |-> b.chance[k].plausible, desc |-> None]]
  \o IF b.app_desc THEN <<[whole |-> TRUE, plausible |-> TRUE, desc |-> Descriptor(b)]>>
     ELSE << >>

\* from_elf: the first that is whole and looks like a descriptor.
FromElf(i) ==
  LET all == Candidates(i)
      right == {k \in DOMAIN all : all[k].whole /\ all[k].plausible}
  IN  IF right = {} THEN None ELSE all[Min(right)].desc

\* identity_of_elf.
ExpectedImage(i) ==
  LET desc == FromElf(i) IN
  IF desc = None THEN None
  ELSE [version |-> desc.version, project_name |-> desc.project_name,
        sha256_prefix |-> Digits(Build[i].sha256, HASH_PREFIX_LEN)]

HashIsUnpatched(have) ==
  have.sha256_prefix # << >> /\ \A d \in Range(have.sha256_prefix) : d = 0

\* Mutant: the mark is compared, the hash is not.
MatchedByMark(want, have) ==
  \/ have.mark = want.version
  \/ have.mark = want.project_name /\ have.version = want.version

\* Mutant: a binary's name will do for a build without the feature.
MatchedByName(want, have) ==
  /\ HashIsUnpatched(have) \/ have.sha256_prefix = want.sha256_prefix
  /\ have.mark \in {want.version, want.project_name}

\* ExpectedImage::matched_by: a hash is compared only when the board has one.
MatchedBy(want, have) ==
  /\ HashIsUnpatched(have) \/ have.sha256_prefix = want.sha256_prefix
  /\ \/ have.mark = want.version
     \/ have.mark = want.project_name /\ have.version = want.version

\* What a name promises a person: the program, and the commit it was built from
\* or, without the identity feature, its version; and the very file, where the
\* board has a hash to show.
SameFirmware(i, j) ==
  LET a == Build[i]  b == Build[j] IN
  /\ a.identity = b.identity
  /\ IF a.identity
     THEN a.name = b.name /\ a.features = b.features /\ Abbreviated(a) = Abbreviated(b)
     ELSE a.bin = b.bin /\ a.version = b.version
  /\ b.patched => a.sha256 = b.sha256

\* The ELF of i is told from what a board with j prints as a person would tell
\* them, and a line that lost its end never makes one pass for another.
Tells(i, j) ==
  LET want == ExpectedImage(i) IN
    want # None /\ Build[j].app_desc =>
      /\ MatchedBy(want, FromLine(Printed(j))) <=> SameFirmware(i, j)
      /\ \A text \in CutShort(Printed(j)) :
           FromLine(text) # None /\ MatchedBy(want, FromLine(text)) => SameFirmware(i, j)

\* What names rest on: marks can be read in one way only; no mark is a binary's
\* name or a version, and no binary is named like a version; a patched hash is
\* told by its first digits, and begins with none that an unpatched one has.
MarksReadable ==
  \A i, j \in Images :
    LET a == Build[i]  b == Build[j] IN
      a.identity /\ b.identity /\ a.name \o Mark(a) = b.name \o Mark(b) =>
        a.name = b.name /\ a.features = b.features /\ Abbreviated(a) = Abbreviated(b)
NamesApart ==
  \A i, j \in Images :
    LET a == Build[i]  b == Build[j] IN
      /\ a.identity => a.name \o Mark(a) \notin {<<b.bin>>, <<b.version>>}
      /\ a.bin # b.version
HashesApart ==
  \A i, j \in Images :
    LET a == Build[i]  b == Build[j] IN
      b.patched =>
        /\ b.sha256[1] # 0
        /\ Digits(a.sha256, HASH_PREFIX_LEN) = Digits(b.sha256, HASH_PREFIX_LEN) =>
             a.sha256 = b.sha256
Legible == MarksReadable /\ NamesApart /\ HashesApart
================================================================================
