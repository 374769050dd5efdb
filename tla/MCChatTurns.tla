---------------------------- MODULE MCChatTurns ----------------------------
(* A small instance of ChatTurns for TLC. *)
EXTENDS ChatTurns

\* Text, no text, and texts that decode to calls: with text and an id, without
\* text and with an id, and with a call that has none beside it.
Texts ==
    {[text |-> TRUE, calls |-> {}, bare |-> FALSE],
     [text |-> FALSE, calls |-> {}, bare |-> FALSE],
     [text |-> FALSE, calls |-> {<<0, 1>>}, bare |-> FALSE],
     [text |-> FALSE, calls |-> {<<0, 1>>}, bare |-> TRUE]}

\* Turns differ by name only.
Symmetry == Permutations(Turns)
=============================================================================
