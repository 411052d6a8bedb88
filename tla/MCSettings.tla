---------------------------- MODULE MCSettings ----------------------------
(* Instances of Settings for TLC: the saves another firmware may have left. *)
EXTENDS Settings

Label(c, w, up) == [item |-> "label", key |-> c, word |-> w, caps |-> up]
Disable(c, b) == [item |-> "disable", key |-> c, on |-> b]
Low(c) == [item |-> "idle", key |-> c, mode |-> "low"]
Receive(p, c) == [item |-> "uart", key |-> p, channel |-> c]

OneUart == <<"uart">>

(* Labels alike, in both orders; an item this firmware does not know.      *)
OldLabels == {
  <<Label(1, "x", TRUE), Label(0, "x", FALSE)>>,
  <<Label(0, "x", TRUE), Label(1, "x", TRUE)>>,
  <<Label(0, "x", TRUE), [item |-> "other", key |-> 0]>>}

(* An idle and a disable on one channel; a channel disabled and passed     *)
(* through; one disabled and not.                                          *)
OldPins == {
  <<Low(0), Disable(0, TRUE)>>,
  <<Disable(0, TRUE), Receive(0, 0)>>,
  <<Disable(1, TRUE), Disable(1, FALSE)>>}

OldAll == OldLabels \cup OldPins

FirstDisable == {Disable(1, TRUE)}
=============================================================================
