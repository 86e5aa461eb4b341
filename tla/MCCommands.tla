---------------------------- MODULE MCCommands ----------------------------
EXTENDS Commands, FiniteSets

CONSTANTS light1, light2, sensor

\* Two lights in one zone with a motion sensor, which takes no commands.
MCDevice == {light1, light2, sensor}

MCTypeOf == [d \in MCDevice |-> IF d = sensor THEN "pir" ELSE "led"]

MCZones == {MCDevice}

(***************************************************************************)
(* States that differ in the rest behave alike.  The lights do, so only    *)
(* their number matters; of the mesh's doings only whether a command was   *)
(* heard and carried out; nothing reads what is written to a reader that   *)
(* is gone; and nobody looks at the node of a record.                      *)
(***************************************************************************)
CallView(c) ==
  IF c \in DOMAIN store
  THEN <<pc[c], half[c] # {}, token[c], store[c].status, c \in heard, acted[c] # {},
         announced[c]>>
  ELSE <<pc[c], half[c] # {}, token[c], Cardinality(todo[c]), announced[c]>>

ReaderView ==
  IF reader = "gone" THEN <<reader, mute>>
  ELSE <<reader, mute, taken, down, Cardinality(offline)>>

CommandsView ==
  << [c \in Call |-> CallView(c)], ReaderView, failures,
     [i \in DOMAIN up |-> <<up[i].token, Cardinality(up[i].from)>>] >>
===========================================================================
