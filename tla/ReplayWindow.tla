---------------------------- MODULE ReplayWindow ----------------------------
(***************************************************************************)
(* What a replay cache promises, whatever it keeps: of every device the    *)
(* last Size messages it let pass are remembered, oldest first, and a      *)
(* message among them is a duplicate.  A duplicate is not let pass, so it  *)
(* neither moves the window nor makes a message be remembered for longer.  *)
(***************************************************************************)
EXTENDS Naturals, Sequences

CONSTANTS
  Mac,      \* the devices
  Pair,     \* what marks a message: the sender's epoch and sequence number
  Zero,     \* epoch 0, sequence number 0: the mark of no message
  Size      \* how many messages are remembered per device

VARIABLES
  window,   \* per device, the last Size marks let pass, Zero where there is none
  answer    \* the last call and its result

wvars == <<window, answer>>

WInit ==
  /\ window = [m \in Mac |-> [k \in 1 .. Size |-> Zero]]
  /\ answer = [pair |-> Zero, duplicate |-> FALSE]

Seen(m, p) == p # Zero /\ \E k \in 1 .. Size : window[m][k] = p

Pass(m, p) ==
  /\ ~Seen(m, p)
  /\ window' = [window EXCEPT ![m] = Append(Tail(@), p)]
  /\ answer' = [pair |-> p, duplicate |-> FALSE]

Refuse(m, p) ==
  /\ Seen(m, p)
  /\ answer' = [pair |-> p, duplicate |-> TRUE]
  /\ UNCHANGED window

WNext == \E m \in Mac, p \in Pair : Pass(m, p) \/ Refuse(m, p)

WSpec == WInit /\ [][WNext]_wvars

=============================================================================
