----------------------------- MODULE MCKeyboard -----------------------------
(***************************************************************************)
(* Keyboard on every sequence of a few key events and openings, against    *)
(* the definition of TypedLines.                                           *)
(***************************************************************************)
EXTENDS TypedLines

MCEvents == {<<"KEY_A", 1>>, <<"KEY_A", 2>>, <<"KEY_KP1", 1>>, <<"KEY_SPACE", 1>>,
             <<"KEY_LEFTSHIFT", 1>>, <<"KEY_LEFTSHIFT", 0>>,
             <<"KEY_CAPSLOCK", 1>>, <<"KEY_BACKSPACE", 1>>, <<"KEY_ENTER", 1>>}

=============================================================================
