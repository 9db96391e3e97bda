------------------------------- MODULE MCTyping -------------------------------
(***************************************************************************)
(* The keyboard with the editor, and the mouse.  The two drivers share no  *)
(* variable, so a step of one never matters to the other: a behaviour has  *)
(* steps of one device.                                                    *)
(***************************************************************************)
EXTENDS Typing, Mouse

VARIABLE device

\* A letter, Enter, Backspace, Tab, both shifts, CapsLock and the keypad's
\* period; and, with the prefix, the arrows, Home, PageDown and Delete.
MCCodes == {<<"1E", FALSE>>, <<"1C", FALSE>>, <<"0E", FALSE>>, <<"0F", FALSE>>,
            <<"2A", FALSE>>, <<"36", FALSE>>, <<"3A", FALSE>>, <<"53", FALSE>>,
            <<"48", TRUE>>, <<"50", TRUE>>, <<"4B", TRUE>>, <<"4D", TRUE>>,
            <<"47", TRUE>>, <<"51", TRUE>>, <<"53", TRUE>>}

MCReleased == {<<"1E", FALSE>>, <<"53", TRUE>>}

MCFiles == {<<"a", "nl", "a">>}

\* Button up; button down, moving left and down; an overflow.  No movement,
\* and one that looks like a first byte with the button.
MCFlags == {8, 57, 73}
MCData == {0, 9}
MCScreens == {<<2, 2>>}
MCDefault == <<3, 3>>

DeviceInit ==
    /\ device \in {"keyboard", "mouse"} /\ Init /\ MouseInit
    /\ device = "mouse" => file = <<>>

DeviceNext ==
    \/ device = "keyboard" /\ Next /\ UNCHANGED <<device, mouseVars>>
    \/ device = "mouse" /\ MouseNext /\ UNCHANGED <<device, vars>>

InputSpec == DeviceInit /\ [][DeviceNext]_<<device, vars, mouseVars>>
=============================================================================
