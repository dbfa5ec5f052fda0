------------------------------ MODULE MCConsole ------------------------------
(* Values for the console's run: letters stand for module paths.            *)
EXTENDS ConsoleBoot

CONSTANTS log, app, cat1, cat2

Bare(l) == [bare |-> TRUE, level |-> l]
For(p, l) == [bare |-> FALSE, prefix |-> p, level |-> l]

MCTargets == {<<"s">>, <<"s", "d">>, <<"n">>}

\* Every spec of up to three directives, of these.
Directives == {Bare(2), Bare(4), Bare(Unknown),
               For(<<"s">>, 1), For(<<"s">>, 5), For(<<"s", "d">>, 3)}
MCFilters == UNION {[1..n -> Directives] : n \in 0..3}

Plan(who, lines, panics_, boots_) ==
    [who |-> who, lines |-> lines, panics |-> panics_, boots |-> boots_, filter |-> << >>]

\* Two dumpers and a logger overfill the ring; a core panics with lines on their
\* way; both panic, or one boot after the other; and a quiet boot of each spec.
MCPlans ==
    { Plan({log, cat1, cat2}, 3, 0, 1), Plan({log, app}, 1, 1, 2),
      Plan({}, 0, 2, 2), Plan({}, 0, 1, 3) }
    \cup {[Plan({}, 0, 0, 1) EXCEPT !.filter = f] : f \in MCFilters}
=============================================================================
