--------------------------- MODULE MCUserInterface ---------------------------
(* Instances of UserInterface: a screen of 4 by 5, pages of 2 lines.        *)
EXTENDS UserInterface

MCPrompt == <<62>>                  \* ">"
MCMore == <<10, 43, 10>>            \* "\n+\n"

\* Text without and with empty lines, a tab, a full row before a newline;
\* numbers that end rows in the middle.
MCBuffers == {
    <<99, 99, 99, 99, 99, 99, 99, 99, 99, 99>>,
    <<99, 10, 9, 99, 13, 10, 99>>,
    <<10, 10, 10, 99, 99, 99, 99, 10, 99>>,
    <<0, 200, 200, 200, 200, 200, 200, 200, 200>> }

=============================================================================
