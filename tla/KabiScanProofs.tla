--------------------------- MODULE KabiScanProofs ---------------------------
(***************************************************************************)
(* Proofs about KabiScan: for any keys, sessions and interrupts, and for   *)
(* all the flags of the menu at once.                                      *)
(***************************************************************************)
EXTENDS KabiScan, TLAPS

\* A command is that of a session under way.
Ended == ~running => command = NoCommand

IInv == TypeOK /\ FormKept /\ CopiesAgree /\ PrefixIffWords /\ Ended

LEMMA FlagsHere ==
    /\ "b_whitelist" \in Flags /\ "b_wholeword" \in Flags /\ "b_type" \in Flags
    /\ {"b_whitelist", "b_wholeword"} \subseteq Flags
BY DEF Flags

\* Keys l and w leave settings with which kabi-lookup can be run.
LEMMA KeysAccepted ==
    ASSUME global \in Globals,
           NEW g \in Globals, WhiteListKey(g) \/ WholeWordKey(g)
    PROVE  Accepted(g)
<1>1. CASE WhiteListKey(g)
  BY <1>1, FlagsHere DEF WhiteListKey, Globals, Accepted, On
<1>2. CASE WholeWordKey(g)
  BY <1>2, FlagsHere DEF WholeWordKey, Globals, Accepted, On
<1> QED BY <1>1, <1>2

\* Keys l and w change no other global.
LEMMA KeysLeave ==
    ASSUME global \in Globals,
           NEW g \in Globals, WhiteListKey(g) \/ WholeWordKey(g)
    PROVE  \A f \in Flags \ {"b_whitelist", "b_wholeword"} : g[f] = global[f]
BY DEF WhiteListKey, WholeWordKey, Globals

LEMMA TogglesFlag ==
    ASSUME NEW v \in {"", "true", "false"}
    PROVE  ui_toggle(v) \subseteq {"true", "false"}
BY DEF ui_toggle

LEMMA DefaultsTyped == Defaults \in [flag : Globals, smode : Modes]
BY DEF Defaults, Globals, Modes, smode_sym

LEMMA NoCommandTyped ==
    NoCommand \in [flags : SUBSET Flags, smode : Modes, prefix : BOOLEAN]
BY DEF NoCommand, Modes, smode_sym

LEMMA InitInv == Init => IInv
<1> SUFFICES ASSUME Init PROVE IInv
  OBVIOUS
<1>1. TypeOK
  <2>1. Defaults.flag \in Globals /\ Defaults.smode \in Modes
    BY DefaultsTyped
  <2>2. Unset \in Globals
    BY DEF Unset, Globals
  <2> QED BY <2>1, <2>2, DefaultsTyped, NoCommandTyped DEF Init, TypeOK
<1> QED BY <1>1 DEF Init, IInv, FormKept, CopiesAgree, PrefixIffWords, Ended

LEMMA NextInv == IInv /\ [Next]_vars => IInv'
<1> SUFFICES ASSUME IInv, [Next]_vars PROVE IInv'
  OBVIOUS
<1> USE DEF IInv
<1>1. CASE cfg_start
  <2>1. TypeOK'
    BY <1>1 DEF cfg_start, TypeOK, Unset, Globals
  <2>2. FormKept'
    BY <1>1 DEF cfg_start, FormKept
  <2>3. CopiesAgree'
    BY <1>1 DEF cfg_start, CopiesAgree, TypeOK, Unset, Globals
  <2>4. command' = NoCommand
    BY <1>1 DEF cfg_start, Ended
  <2> QED BY <2>1, <2>2, <2>3, <2>4 DEF PrefixIffWords, Ended
<1>2. CASE PressListOrWord
  <2> PICK g \in Globals :
        /\ WhiteListKey(g) \/ WholeWordKey(g)
        /\ global' = g
        /\ Copies({"b_whitelist", "b_wholeword"}, g)
    BY <1>2 DEF PressListOrWord
  <2>1. /\ flag' = [f \in Flags |-> IF f \in {"b_whitelist", "b_wholeword"}
                                    THEN g[f] ELSE flag[f]]
        /\ running /\ running' /\ command' = NoCommand
        /\ UNCHANGED <<smode, conf>>
    BY <1>2 DEF PressListOrWord, Copies, TypeOK
  <2>2. TypeOK'
    BY <2>1, NoCommandTyped DEF TypeOK, Globals
  <2>3. FormKept'
    <3>1. Accepted(g)
      BY KeysAccepted DEF TypeOK
    <3>2. flag'["b_whitelist"] = g["b_whitelist"] /\ flag'["b_wholeword"] = g["b_wholeword"]
      BY <2>1, FlagsHere
    <3> QED BY <3>1, <3>2 DEF FormKept, Accepted
  <2>4. CopiesAgree'
    <3>1. \A f \in Flags \ {"b_whitelist", "b_wholeword"} : g[f] = global[f]
      BY KeysLeave DEF TypeOK
    <3> QED BY <2>1, <3>1 DEF CopiesAgree
  <2> QED BY <2>1, <2>2, <2>3, <2>4 DEF PrefixIffWords, Ended
<1>3. CASE PressPlain
  <2> PICK f \in PlainFlags \cup {"b_type"} : \E v \in ui_toggle(global[f]) :
        /\ global' = [global EXCEPT ![f] = v]
        /\ Copies({f}, global')
    BY <1>3 DEF PressPlain
  <2>1. f \in Flags /\ f \notin {"b_whitelist", "b_wholeword"}
    BY FlagsAssumption DEF Flags
  <2> PICK v \in ui_toggle(global[f]) :
        /\ global' = [global EXCEPT ![f] = v]
        /\ Copies({f}, global')
    OBVIOUS
  <2>2. v \in {"", "true", "false"}
    BY <2>1, TogglesFlag DEF TypeOK, Globals
  <2>3. /\ flag' = [e \in Flags |-> IF e \in {f} THEN global'[e] ELSE flag[e]]
        /\ running /\ running' /\ command' = NoCommand
        /\ UNCHANGED <<smode, conf>>
    BY <1>3 DEF PressPlain, Copies, TypeOK
  <2>4. global' \in Globals /\ global'[f] = v
    BY <2>1, <2>2 DEF TypeOK, Globals
  <2>5. TypeOK'
    BY <2>3, <2>4, NoCommandTyped DEF TypeOK, Globals
  <2>6. FormKept'
    <3>1. flag'["b_whitelist"] = flag["b_whitelist"] /\ flag'["b_wholeword"] = flag["b_wholeword"]
      BY <2>1, <2>3, FlagsHere
    <3> QED BY <2>3, <3>1 DEF FormKept, Accepted
  <2>7. CopiesAgree'
    BY <2>3, <2>4 DEF CopiesAgree, TypeOK, Globals
  <2> QED BY <2>3, <2>5, <2>6, <2>7 DEF PrefixIffWords, Ended
<1>4. CASE ui_cycle_state
  <2>1. TypeOK'
    BY <1>4, NoCommandTyped DEF ui_cycle_state, TypeOK, Modes
  <2> QED BY <1>4, <2>1
       DEF ui_cycle_state, FormKept, CopiesAgree, PrefixIffWords, Ended
<1>5. CASE RunLookup
  <2>1. TypeOK'
    BY <1>5 DEF RunLookup, TypeOK, Prefixed
  <2>2. PrefixIffWords'
    <3> SUFFICES ASSUME global["b_wholeword"] # ""
                 PROVE  command'.prefix <=> "b_wholeword" \in command'.flags
                                              /\ command'.smode # smode_fun
      BY <1>5 DEF RunLookup, PrefixIffWords
    <3>1. global["b_wholeword"] = flag["b_wholeword"]
      BY <1>5, FlagsHere DEF RunLookup, CopiesAgree
    <3> QED BY <1>5, <3>1, FlagsHere DEF RunLookup, Prefixed
  <2> QED BY <1>5, <2>1, <2>2 DEF RunLookup, FormKept, CopiesAgree, Ended
<1>6. CASE Quit \/ control_c \/ Killed
  <2>1. /\ running' = FALSE /\ command' = NoCommand
        /\ UNCHANGED <<flag, smode, global>>
    BY <1>6 DEF Quit, control_c, Killed, Exits
  <2>2. conf' \in [flag : Globals, smode : Modes]
    <3>1. CASE Quit
      BY <3>1 DEF Quit, cfg_write_cfgfile, TypeOK
    <3>2. CASE control_c
      <4>1. \A g \in Globals : /\ [flag EXCEPT !["b_whitelist"] = g["b_whitelist"]] \in Globals
                               /\ [flag EXCEPT !["b_wholeword"] = g["b_wholeword"]] \in Globals
        BY FlagsHere DEF TypeOK, Globals
      <4>2. \E h \in Globals : conf' = [flag |-> h, smode |-> smode]
        BY <3>2, <4>1 DEF control_c
      <4> QED BY <4>2 DEF TypeOK
    <3>3. CASE Killed
      BY <3>3 DEF Killed, TypeOK
    <3> QED BY <1>6, <3>1, <3>2, <3>3
  <2>3. TypeOK'
    BY <2>1, <2>2, NoCommandTyped DEF TypeOK
  <2> QED BY <2>1, <2>3 DEF FormKept, CopiesAgree, PrefixIffWords, Ended
<1>7. CASE UNCHANGED vars
  BY <1>7 DEF vars, TypeOK, FormKept, CopiesAgree, PrefixIffWords, Ended
<1> QED BY <1>1, <1>2, <1>3, <1>4, <1>5, <1>6, <1>7 DEF Next

LEMMA MenuInvariant == Spec => []IInv
BY InitInv, NextInv, PTL DEF Spec

-----------------------------------------------------------------------------
\* The settings, their copies and the config file are well-formed
\* (kabiscan.source:63-82).
THEOREM SettingsTyped == Spec => []TypeOK
<1>1. IInv => TypeOK
  BY DEF IInv
<1> QED BY <1>1, MenuInvariant, PTL

\* From settings that kabi-lookup accepts no keys lead to settings that it does
\* not (kabiscan.source:297-306).
THEOREM FormAlwaysKept == Spec => []FormKept
<1>1. IInv => FormKept
  BY DEF IInv
<1> QED BY <1>1, MenuInvariant, PTL

\* A flag and its copy in configtable do not drift apart
\* (kabiscan.source:294-313).
THEOREM CopiesAlwaysAgree == Spec => []CopiesAgree
<1>1. IInv => CopiesAgree
  BY DEF IInv
<1> QED BY <1>1, MenuInvariant, PTL

\* The command has a type before the search name just when it matches whole
\* words in a mode that has types (kabiscan.source:372-393).
THEOREM PrefixAlwaysIffWords == Spec => []PrefixIffWords
<1>1. IInv => PrefixIffWords
  BY DEF IInv
<1> QED BY <1>1, MenuInvariant, PTL
=============================================================================
