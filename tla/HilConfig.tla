------------------------------- MODULE HilConfig -------------------------------
(* The board a command line of m5stack-hil means: one named in a hil.toml, or   *)
(* by its MAC, or by its port; how it is reset, flashed and locked (main.rs,    *)
(* config.rs, board.rs, flash.rs). What is not given is a field the record of   *)
(* arguments, or of an entry, does not have.                                    *)
EXTENDS Naturals, Sequences

CONSTANTS
  TtyNames,                 \* the ids that look like a tty
  FileName                  \* of each other: with - for : , which may join two ids

Has(record, field) == field \in DOMAIN record

Only(record, fields) == [f \in DOMAIN record \cap fields |-> record[f]]

\* What is given, and the base where nothing is.
Over(given, base) ==
  [f \in DOMAIN given \cup DOMAIN base |-> IF Has(given, f) THEN given[f] ELSE base[f]]

--------------------------------------------------------------------------------
(* A board                                                                      *)

\* By MAC: its port has one shape, and its probe is on the die.
Cores3(mac) ==
  [id |-> mac, port |-> <<"USB_JTAG_serial_debug_unit", mac>>, baud |-> 1000000,
   reset |-> [by |-> "probe_rs", chip |-> "esp32s3", probe |-> <<"303a:1001", mac>>]]

AtPort(id, port, baud) ==
  [id |-> id, port |-> port, baud |-> baud, reset |-> [by |-> "serial_lines"]]

\* The defaults of every chip are the CoreS3's under its name.
ForChip(chip) == [chip |-> chip, flash_freq |-> "80mhz"]

\* to_board refuses an entry that says neither or both, or half of what it needs.
Addressable(entry) ==
  /\ Has(entry, "mac") # Has(entry, "port")
  /\ Has(entry, "port") => Has(entry, "id")
  /\ Has(entry, "reset") =>
       \/ entry.reset \in {"serial_lines", "espflash"}
       \/ entry.reset = "probe_rs" /\ Has(entry, "chip")

ToBoard(entry) ==
  LET base == IF Has(entry, "mac") THEN Cores3(entry.mac)
              ELSE AtPort(entry.id, entry.port, 1000000)
      reset == IF ~Has(entry, "reset") THEN base.reset
               ELSE Over([by |-> entry.reset],
                         IF entry.reset = "probe_rs" THEN Only(entry, {"chip", "probe"}) ELSE << >>)
  IN  [Over(Only(entry, {"id", "baud"}), base) EXCEPT !.reset = reset]

FlashFields == {"flash_size", "flash_freq", "partition_table"}

ToFlashConfig(entry) ==
  Over(Only(entry, FlashFields), ForChip(IF Has(entry, "chip") THEN entry.chip ELSE "esp32s3"))

--------------------------------------------------------------------------------
(* hil.toml                                                                     *)

\* --config, else the environment's, else the first there is on the way up from
\* the working directory, or at home. One that is named is never passed over.
ConfigFile(args, host) ==
  IF Has(args, "config") THEN {args.config}
  ELSE IF host.env # {} THEN host.env
  ELSE {host.candidates[i] : i \in {i \in DOMAIN host.candidates :
          /\ host.candidates[i] \in host.files
          /\ \A j \in 1..(i - 1) : host.candidates[j] \notin host.files}}

Rig(args, conf) == IF Has(args, "rig") THEN {args.rig} ELSE conf.default_rig

\* The entries --board means: one, or none where a file, rig or name is missing,
\* or the file does not parse.
Entries(args, host) ==
  UNION {{host.parsed[path].rigs[rig][args.board] :
            rig \in {r \in Rig(args, host.parsed[path]) \cap DOMAIN host.parsed[path].rigs :
                       Has(host.parsed[path].rigs[r], args.board)}} :
         path \in ConfigFile(args, host) \cap DOMAIN host.parsed}

--------------------------------------------------------------------------------
(* The command line                                                             *)

\* The rules clap enforces on the address.
Parses(args) ==
  /\ \E way \in {"board", "mac", "port"} : DOMAIN args \cap {"board", "mac", "port"} = {way}
  /\ Has(args, "rig") \/ Has(args, "config") => Has(args, "board")
  /\ Has(args, "port") => Has(args, "id")

Resolves(args, host) ==
  /\ Parses(args)
  /\ Has(args, "board") => \E entry \in Entries(args, host) : Addressable(entry)

\* AddressArgs::resolve
Addressed(args, host) ==
  IF Has(args, "board")
  THEN LET entry == CHOOSE e \in Entries(args, host) : TRUE
       IN  [board |-> ToBoard(entry), flash |-> ToFlashConfig(entry), said |-> Only(entry, {"banner"})]
  ELSE [board |-> IF Has(args, "mac") THEN Cores3(args.mac) ELSE AtPort(args.id, args.port, 1000000),
        flash |-> ForChip("esp32s3"), said |-> << >>]

\* Cli::resolve: the flags over what the address brings.
Target(args, host) ==
  LET found == Addressed(args, host)
      base == IF Has(args, "port") /\ Has(args, "chip") THEN ForChip(args.chip) ELSE found.flash
  IN  [board |-> Over(Only(args, {"baud"}), found.board),
       flash |-> Over(Only(args, FlashFields \cup {"chip"}), base),
       said |-> Over(Only(args, {"banner"}), found.said)]

\* BoardLock::acquire panics on an id that names a tty.
Lockable(args, host) == Target(args, host).board.id \notin TtyNames

LockFile(args, host) ==
  <<IF Has(args, "out") THEN args.out ELSE "work/hil", "locks",
    FileName[Target(args, host).board.id]>>
================================================================================
