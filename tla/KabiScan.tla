------------------------------ MODULE KabiScan ------------------------------
(***************************************************************************)
(* kabiscan: the menu over kabi-lookup.  The settings are kept twice: in   *)
(* global variables, which the keys work on, and in configtable, which is  *)
(* shown, saved and made into the options of kabi-lookup.  Search name,    *)
(* mask, branch and output file depend on no other setting and are left    *)
(* out.                                                                    *)
(*                                                                         *)
(* A flag is a string that the script runs as a command: "", that of a     *)
(* global that was never set, succeeds as "true" does.  The libraries      *)
(* (ui_toggle, ui_cycle_state, cfg_start, cfg_write_cfgfile) are external. *)
(***************************************************************************)
EXTENDS Naturals

CONSTANT PlainFlags     \* the flags that stand for themselves: -1 and -v

ASSUME FlagsAssumption == PlainFlags \subseteq {"b_justone", "b_verbose"}

VARIABLES
    running,    \* kabiscan is running
    flag,       \* the flags in configtable
    smode,      \* the search mode, in both
    global,     \* the flags as global variables
    conf,       \* the config file
    command     \* the options of the kabi-lookup that has just been run

vars == <<running, flag, smode, global, conf, command>>

Flags == {"b_whitelist", "b_wholeword", "b_type"} \cup PlainFlags
Modes == 0..3
smode_sym == 0
smode_fun == 1

On(value) == value # "false"

Defaults ==
    [flag |-> [f \in Flags |-> IF f \in {"b_wholeword", "b_verbose"}
                               THEN "false" ELSE "true"],
     smode |-> smode_sym]

Unset == [f \in Flags |-> ""]

NoCommand == [flags |-> {}, smode |-> smode_sym, prefix |-> FALSE]

-----------------------------------------------------------------------------
(* init.                                                                    *)

\* The config file is read into configtable; the script does not say whether
\* the globals are set from it.
cfg_start ==
    /\ ~running /\ running' = TRUE
    /\ flag' = conf.flag /\ smode' = conf.smode
    /\ global' \in {conf.flag, Unset}
    /\ UNCHANGED <<conf, command>>

-----------------------------------------------------------------------------
(* menu_parser: the keys.                                                   *)

ui_toggle(value) ==
    CASE value = "true" -> {"false"} [] value = "false" -> {"true"}
      [] OTHER -> {"true", "false"}

\* Mutant: a key that sets whole words as well forgets to say so.
CopiesOne(fs, g) ==
    flag' = [f \in Flags |-> IF f \in fs \ {"b_wholeword"} THEN g[f] ELSE flag[f]]

\* configtable[f]=$f, for the flags of a key.
Copies(fs, g) ==
    flag' = [f \in Flags |-> IF f \in fs THEN g[f] ELSE flag[f]]

\* Mutant: the white list does not ask for whole words.
ListOnly(g) ==
    \E v \in ui_toggle(global["b_whitelist"]) :
      g = [global EXCEPT !["b_whitelist"] = v]

\* The globals after key l: whole words are on, whichever way the list went.
WhiteListKey(g) ==
    \E v \in ui_toggle(global["b_whitelist"]) :
      g = [global EXCEPT !["b_whitelist"] = v,
                         !["b_wholeword"] = IF On(@) THEN @ ELSE "true"]

\* Mutant: without whole words the white list stays as it was.
WordsOnly(g) ==
    \E v \in ui_toggle(global["b_wholeword"]) :
      g = [global EXCEPT !["b_wholeword"] = v]

\* The globals after key w.
WholeWordKey(g) ==
    \E v \in ui_toggle(global["b_wholeword"]) :
      g = [global EXCEPT !["b_wholeword"] = v,
                         !["b_whitelist"] = IF On(v) THEN @ ELSE "false"]

Globals == [Flags -> {"", "true", "false"}]

PressListOrWord ==
    /\ running
    /\ \E g \in Globals :
         /\ WhiteListKey(g) \/ WholeWordKey(g)
         /\ global' = g
         /\ Copies({"b_whitelist", "b_wholeword"}, g)
    /\ command' = NoCommand
    /\ UNCHANGED <<running, smode, conf>>

\* Keys 1, v, t.  Whether t is without effect when it is not shown depends on
\* the bash: "continue" in a function reaches the loop of its caller only up to
\* bash 4.3.
PressPlain ==
    /\ running
    /\ \E f \in PlainFlags \cup {"b_type"} : \E v \in ui_toggle(global[f]) :
         /\ global' = [global EXCEPT ![f] = v]
         /\ Copies({f}, global')
    /\ command' = NoCommand
    /\ UNCHANGED <<running, smode, conf>>

ui_cycle_state ==
    /\ running
    /\ smode' = (smode + 1) % 4
    /\ command' = NoCommand
    /\ UNCHANGED <<running, flag, global, conf>>

\* Mutant: the mode does not matter.
AlwaysPrefixed == On(global["b_wholeword"])

\* The search name is prefixed with struct or union, as the menu has shown.
Prefixed == On(global["b_wholeword"]) /\ smode # smode_fun

\* r, and the command that main builds from the settings.
RunLookup ==
    /\ running
    /\ command' = [flags |-> {f \in Flags \ {"b_type"} : On(flag[f])},
                   smode |-> smode, prefix |-> Prefixed]
    /\ UNCHANGED <<running, flag, smode, global, conf>>

-----------------------------------------------------------------------------
(* The end of a session.                                                    *)

\* Mutant: only the flags are saved.
SavesNoMode == conf' = [flag |-> flag]

cfg_write_cfgfile == conf' = [flag |-> flag, smode |-> smode]

Exits == /\ running' = FALSE
         /\ command' = NoCommand
         /\ UNCHANGED <<flag, smode, global>>

\* q, or Ctrl-C while the menu waits or a search runs.
Quit == running /\ cfg_write_cfgfile /\ Exits

\* Ctrl-C between the two copies of key l or w.
control_c ==
    /\ running
    /\ \E g \in Globals :
         \/ WhiteListKey(g) /\ conf' = [flag  |-> [flag EXCEPT !["b_whitelist"] = g["b_whitelist"]],
                                        smode |-> smode]
         \/ WholeWordKey(g) /\ conf' = [flag  |-> [flag EXCEPT !["b_wholeword"] = g["b_wholeword"]],
                                        smode |-> smode]
    /\ Exits

\* Any other signal: nothing is saved.
Killed == running /\ Exits /\ UNCHANGED conf

Init ==
    /\ running = FALSE
    /\ flag = Defaults.flag /\ smode = Defaults.smode
    /\ global = Unset
    /\ conf = Defaults
    /\ command = NoCommand

Next == \/ cfg_start \/ PressListOrWord \/ PressPlain \/ ui_cycle_state
        \/ RunLookup \/ Quit \/ control_c \/ Killed

Spec == Init /\ [][Next]_vars

-----------------------------------------------------------------------------
\* Type correctness of the two copies of the settings and of the config file
\* (kabiscan.source:63-82).
TypeOK ==
    /\ running \in BOOLEAN
    /\ flag \in Globals /\ global \in Globals /\ smode \in Modes
    /\ conf \in [flag : Globals, smode : Modes]
    /\ command \in [flags : SUBSET Flags, smode : Modes, prefix : BOOLEAN]

\* kabi-lookup's check_flags: -l needs -w (kabilookup.cpp:170-171).
Accepted(flags) == On(flags["b_whitelist"]) => On(flags["b_wholeword"])

\* "With this option true, the Whole Word option is automatically set to true"
\* (kabiscan.help:75-77): a session that starts from settings with which
\* kabi-lookup can be run never comes, by any keys, to settings with which it
\* ends with EXE_BADFORM, whether or not the globals were set at the start.
FormKept == running /\ Accepted(conf.flag) => Accepted(flag)

\* The keys work on the settings that the menu shows, unless a global was never
\* set: the two copies of a flag do not drift apart.
CopiesAgree ==
    running => \A f \in Flags : global[f] \in {"", flag[f]}

\* A type is put before the search name just when kabi-lookup is told to match
\* whole words and the mode has types ("when you know exactly what you're
\* seeking", kabiscan.help:59-63), although one is taken from the globals and
\* the other from configtable.  A global that was never set is left out.
PrefixIffWords ==
    running /\ command # NoCommand /\ global["b_wholeword"] # "" =>
      (command.prefix <=> "b_wholeword" \in command.flags /\ command.smode # smode_fun)
=============================================================================
