--------------------------------- MODULE MCHil ---------------------------------
(* Values for the run of m5stack-hil.                                           *)
EXTENDS HilRun

CONSTANTS p, q, elf, hashed, dead, plain, bumped, renamed, tarball, bare

\* The image asked for, in whose file chance put a magic word; a build from the
\* same commit and the same edits but for one, flashed by a tool that patches the
\* hash; one that does not boot. On the shelf, too: two without the identity
\* feature, a version apart; one with a prefix of its own; one not built from a
\* checkout; and one without a descriptor.
MCBuild ==
  LET Of(commit, dirty, sha256) ==
        [app_desc |-> TRUE, identity |-> TRUE,
         name |-> <<"demos", "display">>, bin |-> "display",
         features |-> <<"hl">>, version |-> "0.1.0",
         commit |-> commit, dirty |-> dirty, sha256 |-> sha256,
         patched |-> FALSE, chance |-> << >>]
      Magic == [whole |-> TRUE, plausible |-> FALSE]
  IN  (elf :> [Of(<<7, 7, 1>>, TRUE, <<4, 1>>) EXCEPT !.chance = <<Magic>>])
      @@ (hashed :> [Of(<<7, 7, 2>>, TRUE, <<4, 2>>) EXCEPT !.patched = TRUE])
      @@ (dead :> Of(<<3, 3, 3>>, FALSE, <<6, 6>>))
      @@ (plain :> [Of(<<7, 7, 1>>, FALSE, <<4, 3>>) EXCEPT !.identity = FALSE])
      @@ (bumped :> [Of(<<7, 7, 1>>, FALSE, <<5, 3>>) EXCEPT !.identity = FALSE, !.version = "0.2.0"])
      @@ (renamed :> [Of(<<7, 7, 1>>, TRUE, <<5, 1>>) EXCEPT !.name = <<"d">>, !.patched = TRUE])
      @@ (tarball :> [Of(<< >>, FALSE, <<8, 1>>) EXCEPT !.features = << >>])
      @@ (bare :> [Of(<<7, 7, 1>>, FALSE, <<9, 1>>) EXCEPT !.app_desc = FALSE])

\* A hil.toml that names the board by its MAC, under two names, one to have it
\* reset by espflash, and has an entry nobody can address; beside it, one of a
\* checkout that is passed over, and none in the working directory.
MCEntry == [mac |-> "1C:DB", banner |-> "m5stack-core"]
MCToml ==
  [default_rig |-> {"bench"},
   rigs |-> [bench |-> [cores3 |-> MCEntry, tool |-> [reset |-> "espflash"] @@ MCEntry,
                        both |-> [port |-> "/dev/ttyACM0"] @@ MCEntry]]]
MCHosts ==
  << [env |-> {}, candidates |-> <<"./hil.toml", "../hil.toml", "~/hil.toml">>,
      files |-> {"../hil.toml", "~/hil.toml"},
      parsed |-> ("../hil.toml" :> MCToml)
                 @@ ("~/hil.toml" :> [MCToml EXCEPT !.rigs = [bench |-> [cores3 |-> [mac |-> "2C:DB"]]]])] >>

\* One process looks at the image that is there, the other makes sure of it, both
\* having found the board in hil.toml; otherwise one names it by its port, the
\* other by its MAC. A tty is no id, and the last entry no board.
MCFileName == [id \in {"1C:DB"} |-> "1C-DB"]
MCPort == [port |-> <<"USB_JTAG_serial_debug_unit", "1C:DB">>, id |-> "1C:DB", chip |-> "esp32s3"]
MCCommands ==
  LET Cmd(flags, args) == [flags |-> flags, args |-> args]
      ensure == {"ensure_image", "await_boot", "capture", "until"}
  IN  (p :> {Cmd({"expect_image", "capture"}, [board |-> "tool"]),
             Cmd({"read_identity"}, [board |-> "tool"]),
             Cmd({"await_boot"}, [banner |-> "m5stack-core"] @@ MCPort),
             Cmd({"await_boot"}, [id |-> "ttyACM0"] @@ MCPort)})
      @@ (q :> {Cmd(ensure, [board |-> "cores3"]),
                Cmd(ensure, [board |-> "tool"]),
                Cmd({"capture"}, [mac |-> "1C:DB"]),
                Cmd({"await_boot"}, [board |-> "both"])})

\* The builds meet what the proofs ask of them.
ASSUME BuildsLegible == Legible
================================================================================
