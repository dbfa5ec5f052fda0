------------------------------ MODULE LogFilter ------------------------------
(***************************************************************************)
(* The level filter of the log backend (src/io/console.rs): what init      *)
(* makes of a spec such as "info,sdspi=debug", and which records pass.     *)
(* A target or a prefix is a sequence of letters, a level a number.        *)
(***************************************************************************)
EXTENDS Naturals, Sequences, SequencesExt

CONSTANTS
    Targets,   \* module paths records are logged from
    Filters    \* specs: sequences of directives

Info == 3
Levels == 1..5      \* error, warn, info, debug, trace; 0 is off
Unknown == 6        \* a word that names no level

ASSUME FilterAssumption ==
    \A f \in Filters :
        /\ f \in Seq(Range(f))
        /\ \A i \in DOMAIN f :
              /\ f[i].bare \in BOOLEAN
              /\ f[i].level \in Levels \cup {0, Unknown}
              /\ ~f[i].bare => f[i].prefix \in Seq(Range(f[i].prefix))

\* The default level: the last bare directive that names one.
DefaultLevel(f) ==
    FoldLeft(LAMBDA level, d : IF d.bare /\ d.level # Unknown THEN d.level ELSE level,
             Info, f)

HasDirectives(f) == \E i \in DOMAIN f : ~f[i].bare

\* Mutant: the gate of the log macros stays at the default level.
MaxLevelOfDefault(f) == IF DefaultLevel(f) > Info THEN DefaultLevel(f) ELSE Info

\* log::set_max_level: the most verbose level any directive asks for.
MaxLevel(f) ==
    FoldLeft(LAMBDA level, d : IF d.level # Unknown /\ d.level > level THEN d.level ELSE level,
             Info, f)

\* filter_for: the longest matching prefix so far; a bare directive counts
\* only until the first match, and one it cannot read is Info.
FilterFor(f, target) ==
    FoldLeft(
        LAMBDA best, d :
            IF d.bare
            THEN IF best.len > 0 THEN best
                 ELSE [best EXCEPT !.level = IF d.level = Unknown THEN Info ELSE d.level]
            ELSE IF /\ IsPrefix(d.prefix, target)
                    /\ Len(d.prefix) > best.len
                    /\ d.level # Unknown
                 THEN [level |-> d.level, len |-> Len(d.prefix)]
                 ELSE best,
        [level |-> Info, len |-> 0], f).level

\* enabled, behind the gate: the default level passes unlooked.
Admitted(f, target, level) ==
    /\ level <= MaxLevel(f)
    /\ \/ level <= DefaultLevel(f)
       \/ HasDirectives(f) /\ level <= FilterFor(f, target)

\* What a spec asks for of a target: "the longest matching target=level
\* directive wins, a bare level is the default" (console.rs:349-350).
Matching(f, target) ==
    {i \in DOMAIN f : /\ ~f[i].bare /\ f[i].level # Unknown
                      /\ f[i].prefix # << >> /\ IsPrefix(f[i].prefix, target)}

AskedFor(f, target, level) ==
    IF Matching(f, target) = {} THEN level <= DefaultLevel(f)
    ELSE \E i \in Matching(f, target) :
             /\ \A j \in Matching(f, target) : Len(f[j].prefix) <= Len(f[i].prefix)
             /\ \A j \in Matching(f, target) : f[j].prefix = f[i].prefix => i <= j
             /\ level <= f[i].level

\* No record a spec asks for is held back: by the gate of the macros, by the
\* default level, or by another directive.
LetsThrough(f) ==
    \A target \in Targets, level \in Levels :
        AskedFor(f, target, level) => Admitted(f, target, level)
=============================================================================
